---- MODULE Spec2Model ----
(***************************************************************************)
(* Model of munger.db.vector_store.WisdomVectorStore: a list of records    *)
(* and a parallel embedding matrix held in memory and persisted to two     *)
(* files (wisdom_store.json, wisdom_embeddings.npy).                       *)
(*                                                                         *)
(* data and embeddings are the attributes of the instance in use; where     *)
(* two instances share the files, instances holds the attributes of each   *)
(* and written the file writes made so far.  model is the class attribute  *)
(* _model of the process.  frame holds the local variables of a call of   *)
(* ContentProcessor._chunk_text.  advisor is the MungerAdvisor of the      *)
(* process with the calls of ask and chat in progress, db the committed    *)
(* content of the database.                                                *)
(*                                                                         *)
(* Python values are represented as follows.                               *)
(*   Optional[x]      None is <<>>, a present value x is <<x>>.            *)
(*   list             a sequence.                                          *)
(*   dict             a record.                                            *)
(*   numpy 2-D array  a sequence of rows, each row a sequence of integers. *)
(*   float            an integer number of units of 1/Scale, every         *)
(*                    inexact operation rounded to the nearest unit.       *)
(***************************************************************************)
EXTENDS Integers, Sequences

VARIABLES data, embeddings, data_file, embeddings_file, op, instances, written, model, frame, advisor, db

vars == <<data, embeddings, data_file, embeddings_file, op, instances, written, model, frame, advisor, db>>

\* The variables of the wisdom store and of the process that holds it.
store_vars == <<data, embeddings, data_file, embeddings_file, op, instances, written, model>>

\* The variables the operations of the store leave alone.
others == <<frame, advisor, db>>

\* ------------------------------------------------------------------ bounds

\* Largest number of records the store is driven to.
MaxRecords == 3

\* Longest list handed to add_wisdom_batch.
MaxBatch == 2

\* Largest n_results asked of search.
MaxTopK == 3

\* Fraction bits kept by the model's floating-point values.
FracBits == 3

\* ------------------------------------------------------- Python primitives

None == <<>>

Some(x) == <<x>>

\* bool(x) of an Optional list or Optional str argument: None and the empty
\* list are falsy.
Truthy(opt) == opt # None /\ opt[1] # <<>>

RemoveAt(s, i) == [j \in 1..(Len(s) - 1) |-> IF j < i THEN s[j] ELSE s[j + 1]]

\* Reverse returning s as it is.
Reverse_kept(s) == s

Reverse(s) == [j \in 1..Len(s) |-> s[Len(s) + 1 - j]]

\* ------------------------------------------------------------ domain model

\* WisdomCategory: member name -> value.
WisdomCategory == [MENTAL_MODEL |-> "mental_model", QUOTE |-> "quote", PRINCIPLE |-> "principle", STORY |-> "story", SPEECH_EXCERPT |-> "speech_excerpt", BOOK_EXCERPT |-> "book_excerpt"]

\* str(uuid): the canonical text of a UUID (UUIDs are numbered here).
str(uuid) == <<"uuid", uuid>>

\* The MungerWisdom objects callers hold.  The first two carry the same
\* content under different ids; the third has no tags, no related models and
\* no year.
MungerWisdom == {
    [id |-> 1, category |-> "QUOTE", title |-> "T1", content |-> "alpha", source |-> "S1", tags |-> <<"risk">>, related_models |-> <<"Inversion">>, year |-> Some(1994)],
    [id |-> 2, category |-> "QUOTE", title |-> "T2", content |-> "alpha", source |-> "S2", tags |-> <<"life", "risk">>, related_models |-> <<"Incentives", "Inversion">>, year |-> None],
    [id |-> 3, category |-> "PRINCIPLE", title |-> "T3", content |-> "gamma", source |-> "S1", tags |-> <<>>, related_models |-> <<>>, year |-> None] }

\* Every UUID a caller may pass to delete: those of the objects above and one
\* that no object carries.
UUIDs == {w.id : w \in MungerWisdom} \cup {0}

\* The stored dict built from a MungerWisdom (add_wisdom, add_wisdom_batch).
Item(w) == [id |-> str(w.id), category |-> WisdomCategory[w.category], title |-> w.title, content |-> w.content, source |-> w.source, tags |-> w.tags, related_models |-> w.related_models, year |-> w.year]

\* ------------------------------------------------------ embedding provider

\* model.encode: one vector per text.  The provider is an external
\* collaborator; these vectors stand for its output.
Encode(text) ==
    CASE text = "alpha" -> <<1, 1>>
      [] text = "beta" -> <<1, 0>>
      [] text = "gamma" -> <<-1, -1>>
      [] text = "Inversion" -> <<0, -1>>
      [] text = "incentive" -> <<-1, 0>>
      [] OTHER -> <<0, 0>>

\* The error model.encode raises when the provider fails; _embed and its
\* callers catch nothing.
EncodeError == Some("EncodeError")

\* _embed(texts): the matrix of the texts' vectors, in order.
embed(texts) == [i \in 1..Len(texts) |-> Encode(texts[i])]

\* ------------------------------------------------------------ persistence

\* json.dump of the record list: every value becomes a JSON value.
JStr(s) == [json |-> "string", s |-> s]

JNum(n) == [json |-> "number", n |-> n]

JNull == [json |-> "null"]

JArr(l) == [i \in 1..Len(l) |-> JStr(l[i])]

\* JsonDumpItem with the year always written as null.
JsonDumpItem_null_year(item) == [id |-> JStr(item.id), category |-> JStr(item.category), title |-> JStr(item.title), content |-> JStr(item.content), source |-> JStr(item.source), tags |-> JArr(item.tags), related_models |-> JArr(item.related_models), year |-> JNull]

JsonDumpItem(item) == [id |-> JStr(item.id), category |-> JStr(item.category), title |-> JStr(item.title), content |-> JStr(item.content), source |-> JStr(item.source), tags |-> JArr(item.tags), related_models |-> JArr(item.related_models), year |-> IF item.year = None THEN JNull ELSE JNum(item.year[1])]

JsonDump(d) == [i \in 1..Len(d) |-> JsonDumpItem(d[i])]

\* json.load: JSON strings to str, arrays to lists, null to None.
JList(a) == [i \in 1..Len(a) |-> a[i].s]

JsonLoadItem(o) == [id |-> o.id.s, category |-> o.category.s, title |-> o.title.s, content |-> o.content.s, source |-> o.source.s, tags |-> JList(o.tags), related_models |-> JList(o.related_models), year |-> IF o.year.json = "null" THEN None ELSE Some(o.year.n)]

JsonLoad(text) == [i \in 1..Len(text) |-> JsonLoadItem(text[i])]

\* _load: each file is read if it exists, independently of the other.
load_data(df) == IF df # None THEN JsonLoad(df[1]) ELSE <<>>

load_embeddings(ef) == IF ef # None THEN Some(ef[1]) ELSE None

\* _save: the records file is always written, the embeddings file only when
\* the matrix is not None.
save_data(d) == Some(JsonDump(d))

save_embeddings(e, ef) == IF e # None THEN Some(e[1]) ELSE ef

\* vstack putting the new rows before the old ones.
vstack_before(e, new) == IF e = None THEN Some(new) ELSE Some(new \o e[1])

\* np.vstack([self._embeddings, new]) or, for a None matrix, new itself.
vstack(e, new) == IF e = None THEN Some(new) ELSE Some(e[1] \o new)

\* ------------------------------------------------------------- operations

\* The record of the last operation: its name, its arguments, whether the
\* embedding provider was failing, and its outcome (raised and the error
\* raised, the value returned by the operations other than search, the
\* number of calls of _embed, the lists handed to add_wisdom_batch by a
\* caller of the store, the index delete stopped at, the similarities, the
\* ranking, the accepted indices and the list search returned).
NoOp == [name |-> "init", wisdom |-> <<>>, wisdom_id |-> None, query |-> None, n_results |-> 0, category |-> None, tags |-> None, provider_fails |-> FALSE, raised |-> FALSE, error |-> None, returned |-> None, embed_calls |-> 0, batches |-> <<>>, index |-> 0, similarities |-> <<>>, indices |-> <<>>, picked |-> <<>>, results |-> <<>>]

\* _get_model constructing a model at every call.
get_model_reloads(m) == Some(IF m = None THEN 1 ELSE m[1] + 1)

\* _get_model: cls._model after the call, the models the process constructs
\* being numbered from 1.
get_model(m) == IF m = None THEN Some(1) ELSE m

\* cls._model after an operation: _embed calls _get_model before
\* model.encode; when the provider fails and no model is loaded yet, the
\* error is that of the constructor, which leaves _model None, or that of
\* encode.
embed_model ==
    IF op'.embed_calls = 0 THEN model' = model
    ELSE IF op'.raised /\ model = None THEN model' \in {None, get_model(model)}
    ELSE model' = get_model(model)

\* No call of _chunk_text is running.
NoFrame == [pc |-> "idle", len |-> 0, start |-> 0, idx |-> -1, end |-> 0, covered |-> 0, chunks |-> 0]

\* No call of ask is running.  profile, relevant_wisdom and messages are
\* the locals of that name; llm_calls counts the calls of generate_response,
\* store_raised records that the store raised in _retrieve_wisdom, db0 is
\* the database as the call found it.
NoAsk == [pc |-> "idle", question |-> "", user_id |-> None, session_context |-> <<>>, stream |-> FALSE, profile |-> None, relevant_wisdom |-> <<>>, messages |-> <<>>, llm_calls |-> 0, store_raised |-> FALSE, error |-> None, response |-> None, db0 |-> <<>>]

\* No call of chat is running.  session is the conversation as the open
\* session holds it, writes flushed and not committed included; created
\* tells that the call created it; commits, rollbacks and closes count the
\* calls of those methods of the session.
NoChat == [pc |-> "idle", message |-> "", conversation_id |-> None, user_id |-> None, stream |-> FALSE, session |-> None, created |-> FALSE, commits |-> 0, rollbacks |-> 0, closes |-> 0, error |-> None, returned |-> None, db0 |-> <<>>]

\* advisor = MungerAdvisor(): no store is constructed yet.
NoAdvisor == [vector_store |-> FALSE, ask |-> NoAsk, chat |-> NoChat]

\* A database of no profile and no conversation.
EmptyDb == [profiles |-> <<>>, conversations |-> <<>>]

\* The other components at rest.
InitOthers == frame = NoFrame /\ advisor = NoAdvisor /\ db = EmptyDb

Init ==
    /\ data = <<>>
    /\ embeddings = None
    /\ data_file = None
    /\ embeddings_file = None
    /\ op = NoOp
    /\ instances = <<>>
    /\ written = <<>>
    /\ model = None
    /\ InitOthers

\* A file whose content neither json.load nor np.load can parse (a file
\* that parses is <<content>>).
Unparsable == <<<<>>, "unparsable">>

\* json.load(f) raises on a records file that is not JSON.
json_load_raises(df) == df = Unparsable

\* np_load_raises finding nothing wrong.
np_load_accepts(ef) == FALSE

\* np.load(file) raises on an embeddings file that is not an array file.
np_load_raises(ef) == ef = Unparsable

\* WisdomVectorStore(dir): a new instance loads whatever the files hold.
\* _load reads the records file, then the embeddings file; an error of
\* either load leaves __init__, the attributes being what they were then.
open ==
    /\ IF json_load_raises(data_file)
       THEN /\ data' = <<>>
            /\ embeddings' = None
            /\ op' = [NoOp EXCEPT !.name = "open", !.raised = TRUE, !.error = Some("JSONDecodeError")]
       ELSE IF np_load_raises(embeddings_file)
       THEN /\ data' = load_data(data_file)
            /\ embeddings' = None
            /\ op' = [NoOp EXCEPT !.name = "open", !.raised = TRUE, !.error = Some("ValueError")]
       ELSE /\ data' = load_data(data_file)
            /\ embeddings' = load_embeddings(embeddings_file)
            /\ op' = [NoOp EXCEPT !.name = "open"]
    /\ UNCHANGED <<data_file, embeddings_file>>

\* add_wisdom appending the record before it embeds the content.
add_wisdom_appends_first(wisdom, provider_fails) ==
    LET d == Append(data, Item(wisdom))
        e == vstack(embeddings, embed(<<wisdom.content>>))
    IN /\ Len(data) < MaxRecords
       /\ data' = d
       /\ IF provider_fails
          THEN /\ op' = [NoOp EXCEPT !.name = "add_wisdom", !.wisdom = <<wisdom>>, !.provider_fails = TRUE, !.raised = TRUE, !.error = EncodeError, !.embed_calls = 1]
               /\ UNCHANGED <<embeddings, data_file, embeddings_file>>
          ELSE /\ embeddings' = e
               /\ data_file' = save_data(d)
               /\ embeddings_file' = save_embeddings(e, embeddings_file)
               /\ op' = [NoOp EXCEPT !.name = "add_wisdom", !.wisdom = <<wisdom>>, !.embed_calls = 1]

\* add_wisdom calling the provider a second time when the first call raises,
\* the second call answering.
add_wisdom_retries(wisdom, provider_fails) ==
    LET d == Append(data, Item(wisdom))
        e == vstack(embeddings, embed(<<wisdom.content>>))
    IN /\ Len(data) < MaxRecords
       /\ data' = d
       /\ embeddings' = e
       /\ data_file' = save_data(d)
       /\ embeddings_file' = save_embeddings(e, embeddings_file)
       /\ op' = [NoOp EXCEPT !.name = "add_wisdom", !.wisdom = <<wisdom>>, !.provider_fails = provider_fails, !.embed_calls = IF provider_fails THEN 2 ELSE 1]

\* add_wisdom(wisdom); provider_fails: model.encode raises.
add_wisdom(wisdom, provider_fails) ==
    /\ Len(data) < MaxRecords
    /\ IF provider_fails
       THEN /\ op' = [NoOp EXCEPT !.name = "add_wisdom", !.wisdom = <<wisdom>>, !.provider_fails = TRUE, !.raised = TRUE, !.error = EncodeError, !.embed_calls = 1]
            /\ UNCHANGED <<data, embeddings, data_file, embeddings_file>>
       ELSE LET embedding == embed(<<wisdom.content>>)
                d == Append(data, Item(wisdom))
                e == vstack(embeddings, embedding)
            IN /\ data' = d
               /\ embeddings' = e
               /\ data_file' = save_data(d)
               /\ embeddings_file' = save_embeddings(e, embeddings_file)
               /\ op' = [NoOp EXCEPT !.name = "add_wisdom", !.wisdom = <<wisdom>>, !.embed_calls = 1]

\* add_wisdom_batch(wisdom_items): nothing at all for an empty list.
add_wisdom_batch(wisdom_items, provider_fails) ==
    /\ Len(data) + Len(wisdom_items) <= MaxRecords
    /\ IF wisdom_items = <<>>
       THEN /\ op' = [NoOp EXCEPT !.name = "add_wisdom_batch", !.provider_fails = provider_fails]
            /\ UNCHANGED <<data, embeddings, data_file, embeddings_file>>
       ELSE IF provider_fails
       THEN /\ op' = [NoOp EXCEPT !.name = "add_wisdom_batch", !.wisdom = wisdom_items, !.provider_fails = TRUE, !.raised = TRUE, !.error = EncodeError, !.embed_calls = 1]
            /\ UNCHANGED <<data, embeddings, data_file, embeddings_file>>
       ELSE LET items == [i \in 1..Len(wisdom_items) |-> Item(wisdom_items[i])]
                contents == [i \in 1..Len(wisdom_items) |-> wisdom_items[i].content]
                d == data \o items
                e == vstack(embeddings, embed(contents))
            IN /\ data' = d
               /\ embeddings' = e
               /\ data_file' = save_data(d)
               /\ embeddings_file' = save_embeddings(e, embeddings_file)
               /\ op' = [NoOp EXCEPT !.name = "add_wisdom_batch", !.wisdom = wisdom_items, !.embed_calls = 1]

\* first_match finding no record.
first_match_none(d, wisdom_id_str) == 0

\* The index (from 1) of the first record whose id is wisdom_id_str, or 0:
\* the loop of delete returns at its first match.
first_match(d, wisdom_id_str) ==
    IF \E i \in 1..Len(d) : d[i]["id"] = wisdom_id_str
    THEN CHOOSE i \in 1..Len(d) : d[i]["id"] = wisdom_id_str /\ \A j \in 1..(i - 1) : d[j]["id"] # wisdom_id_str
    ELSE 0

\* delete_row leaving the matrix as it is.
delete_row_kept(e, i) == e

\* delete_row removing the last row whatever i is.
delete_row_last(e, i) == IF e # None /\ Len(e[1]) >= i THEN Some(SubSeq(e[1], 1, Len(e[1]) - 1)) ELSE e

\* np.delete(self._embeddings, i, axis=0), done only when the matrix is not
\* None and has a row i (i counted from 0 in the source, from 1 here).
delete_row(e, i) == IF e # None /\ Len(e[1]) >= i THEN Some(RemoveAt(e[1], i)) ELSE e

\* delete saving also when no record matches.
delete_always_saves(wisdom_id) ==
    LET i == first_match(data, str(wisdom_id))
        d == IF i = 0 THEN data ELSE RemoveAt(data, i)
        e == IF i = 0 THEN embeddings ELSE delete_row(embeddings, i)
    IN /\ op' = [NoOp EXCEPT !.name = "delete", !.wisdom_id = Some(wisdom_id), !.index = i]
       /\ data' = d
       /\ embeddings' = e
       /\ data_file' = save_data(d)
       /\ embeddings_file' = save_embeddings(e, embeddings_file)

\* delete(wisdom_id): pop the first matching record and its row, then save;
\* without a match the loop ends and nothing is written.
delete(wisdom_id) ==
    LET i == first_match(data, str(wisdom_id))
    IN /\ op' = [NoOp EXCEPT !.name = "delete", !.wisdom_id = Some(wisdom_id), !.index = i]
       /\ IF i = 0
          THEN UNCHANGED <<data, embeddings, data_file, embeddings_file>>
          ELSE LET d == RemoveAt(data, i)
                   e == delete_row(embeddings, i)
               IN /\ data' = d
                  /\ embeddings' = e
                  /\ data_file' = save_data(d)
                  /\ embeddings_file' = save_embeddings(e, embeddings_file)

\* Path.unlink(): the file is gone afterwards; FileNotFoundError when there
\* was none.
unlink(f) == [file |-> None, error |-> IF f = None THEN Some("FileNotFoundError") ELSE None]

\* unlink_if_exists calling unlink whether or not the file exists.
unlink_unchecked(f) == unlink(f)

\* if file.exists(): file.unlink()
unlink_if_exists(f) == IF f # None THEN unlink(f) ELSE [file |-> f, error |-> None]

\* clear emptying memory and leaving the files.
clear_keeps_files ==
    /\ data' = <<>>
    /\ embeddings' = None
    /\ op' = [NoOp EXCEPT !.name = "clear"]
    /\ UNCHANGED <<data_file, embeddings_file>>

\* clear(): empty memory and unlink both files if they exist; an error of
\* the first unlink would leave the second file.
clear ==
    LET first == unlink_if_exists(data_file)
        second == IF first.error = None THEN unlink_if_exists(embeddings_file) ELSE [file |-> embeddings_file, error |-> first.error]
    IN /\ data' = <<>>
       /\ embeddings' = None
       /\ data_file' = first.file
       /\ embeddings_file' = second.file
       /\ op' = [NoOp EXCEPT !.name = "clear", !.raised = second.error # None, !.error = second.error]

\* ------------------------------------------------------------------ search

\* numpy computes in binary floating point: every operation returns the
\* representable value nearest to its exact result.  The model keeps that
\* rounding with FracBits fraction bits, a value being a whole number of
\* units of 1/Scale.
RECURSIVE Pow2(_)
Pow2(n) == IF n = 0 THEN 1 ELSE 2 * Pow2(n - 1)

Scale == Pow2(FracBits)

\* n / d (d > 0) rounded to the nearest integer, ties to even.
RoundDiv(n, d) ==
    LET q == n \div d
        r == n % d
    IN IF 2 * r < d THEN q
       ELSE IF 2 * r > d THEN q + 1
       ELSE IF q % 2 = 0 THEN q ELSE q + 1

\* sqrt of the integer x, in units, rounded to nearest.
fsqrt(x) ==
    LET y == x * Scale * Scale
    IN CHOOSE r \in 0..(x * Scale + 1) : 4 * y < (2 * r + 1) * (2 * r + 1) /\ (r = 0 \/ (2 * r - 1) * (2 * r - 1) <= 4 * y)

fmul(a, b) == RoundDiv(a * b, Scale)

fdiv(a, b) == IF b > 0 THEN RoundDiv(a * Scale, b) ELSE 0 - RoundDiv(a * Scale, 0 - b)

\* np.dot of two integer vectors (exact).
RECURSIVE dot(_, _)
dot(u, v) == IF u = <<>> THEN 0 ELSE Head(u) * Head(v) + dot(Tail(u), Tail(v))

\* np.linalg.norm of one vector, in units.
norm(v) == fsqrt(dot(v, v))

\* similarity giving 1 where the product of norms is 0.
similarity_one_at_zero(row, query_embedding) ==
    LET n == fmul(norm(row), norm(query_embedding))
    IN IF n = 0 THEN Scale ELSE fdiv(dot(row, query_embedding) * Scale, n)

\* similarities[i] of search, in units: dot / (norm * norm), the product of
\* norms replaced by 1 where it is 0.
similarity(row, query_embedding) ==
    LET n == fmul(norm(row), norm(query_embedding))
        norms == IF n = 0 THEN Scale ELSE n
    IN fdiv(dot(row, query_embedding) * Scale, norms)

similarities(rows, query_embedding) == [i \in 1..Len(rows) |-> similarity(rows[i], query_embedding)]

\* The permutations of 1..n, for every n a store can hold.
IndexOrders == [n \in 0..MaxRecords |-> {p \in [1..n -> 1..n] : \A i, j \in 1..n : i # j => p[i] # p[j]}]

\* The outcomes np.argsort may give: the permutations that put sims in
\* ascending order.  The default kind is not a stable sort, so the order of
\* equal elements depends on the build.
argsort(sims) == {p \in IndexOrders[Len(sims)] : \A i \in 1..(Len(sims) - 1) : sims[p[i]] <= sims[p[i + 1]]}

\* ",".join(l): the pieces of the joined string.
RECURSIVE join(_)
join(l) == IF Len(l) <= 1 THEN l ELSE <<Head(l), ",">> \o join(Tail(l))

\* skipped testing the tags only.
skipped_tags_only(item, category, tags) ==
    Truthy(tags) /\ ~ \E i \in 1..Len(tags[1]) : \E j \in 1..Len(item["tags"]) : tags[1][i] = item["tags"][j]

\* The filters of the loop of search: TRUE when the item is skipped.
skipped(item, category, tags) ==
    \/ category # None /\ item["category"] # WisdomCategory[category[1]]
    \/ Truthy(tags) /\ ~ \E i \in 1..Len(tags[1]) : \E j \in 1..Len(item["tags"]) : tags[1][i] = item["tags"][j]

\* The loop of search over indices from position pos on: the indices
\* accepted, in order, picked being those accepted so far.
RECURSIVE walk(_, _, _, _, _, _, _)
walk(d, indices, pos, picked, n_results, category, tags) ==
    IF pos > Len(indices) \/ Len(picked) >= n_results THEN picked
    ELSE IF skipped(d[indices[pos]], category, tags)
    THEN walk(d, indices, pos + 1, picked, n_results, category, tags)
    ELSE walk(d, indices, pos + 1, Append(picked, indices[pos]), n_results, category, tags)

\* The dict search appends for an accepted item.
result(item, sim) == [id |-> item["id"], content |-> item["content"], metadata |-> [category |-> item["category"], title |-> item["title"], source |-> item["source"], tags |-> join(item["tags"]), related_models |-> join(item["related_models"])], distance |-> Scale - sim]

\* answers_empty testing the matrix only.
answers_empty_matrix_only(d, e) == e = None

\* The test search makes before anything else: not self._data or
\* self._embeddings is None.
answers_empty(d, e) == d = <<>> \/ e = None

\* search(query, n_results, category, tags); provider_fails: model.encode
\* raises.  An empty store answers [] before the provider is called.  The
\* local values of the source (similarities, indices, results) are each
\* bound once; order ranges over the outcomes of np.argsort.
search(query, n_results, category, tags, provider_fails) ==
    LET call == [NoOp EXCEPT !.name = "search", !.query = Some(query), !.n_results = n_results, !.category = category, !.tags = tags, !.provider_fails = provider_fails]
    IN /\ UNCHANGED <<data, embeddings, data_file, embeddings_file>>
       /\ IF answers_empty(data, embeddings)
          THEN op' = call
          ELSE IF provider_fails
          THEN op' = [call EXCEPT !.raised = TRUE, !.error = EncodeError, !.embed_calls = 1]
          ELSE LET query_embedding == embed(<<query>>)[1]
               IN \E sims \in {similarities(embeddings[1], query_embedding)} :
                  \E order \in argsort(sims) :
                  \E indices \in {Reverse(order)} :
                  \E picked \in {walk(data, indices, 1, <<>>, n_results, category, tags)} :
                    op' = [call EXCEPT !.embed_calls = 1, !.similarities = sims, !.indices = indices, !.picked = picked, !.results = [i \in 1..Len(picked) |-> result(data[picked[i]], sims[picked[i]])]]

\* The arguments search is called with.
Queries == {"alpha", "beta", "gamma", ""}

CategoryFilters == {None, Some("QUOTE"), Some("STORY")}

TagFilters == {None, Some(<<>>), Some(<<"risk">>), Some(<<"luck", "life">>)}

\* The lists handed to add_wisdom_batch: up to MaxBatch objects, repeats allowed.
Batches == UNION {[1..n -> MungerWisdom] : n \in 0..MaxBatch}

Next ==
    /\ UNCHANGED <<instances, written, others>>
    /\ \/ open
       \/ \E w \in MungerWisdom, f \in BOOLEAN : add_wisdom(w, f)
       \/ \E ws \in Batches, f \in BOOLEAN : add_wisdom_batch(ws, f)
       \/ \E u \in UUIDs : delete(u)
       \/ clear
    /\ embed_model

Spec == Init /\ [][Next]_vars

\* ------------------------------------------------- search as a function

\* The lists of objects a store may hold, in insertion order.
Stored == UNION {[1..n -> MungerWisdom] : n \in 0..MaxRecords}

\* A store as the operations above leave it: ws added to a new store by
\* add_wisdom_batch and saved; an empty store has no matrix (new, or after
\* clear) or a matrix of no rows (after delete of its last record).
InitSearch ==
    /\ \E ws \in Stored :
         /\ data = [i \in 1..Len(ws) |-> Item(ws[i])]
         /\ \/ ws # <<>> /\ embeddings = vstack(None, embed([i \in 1..Len(ws) |-> ws[i].content]))
            \/ ws = <<>> /\ embeddings \in {None, Some(<<>>)}
    /\ data_file = IF embeddings = None THEN None ELSE save_data(data)
    /\ embeddings_file = save_embeddings(embeddings, None)
    /\ op = NoOp
    /\ instances = <<>>
    /\ written = <<>>
    /\ model = IF embeddings = None THEN None ELSE Some(1)
    /\ InitOthers

\* One call of search on that store.
NextSearch ==
    /\ op.name = "init"
    /\ UNCHANGED <<instances, written, others>>
    /\ \E q \in Queries, k \in 0..MaxTopK, c \in CategoryFilters, t \in TagFilters, f \in BOOLEAN : search(q, k, c, t, f)
    /\ embed_model

SpecSearch == InitSearch /\ [][NextSearch]_vars

\* ------------------------------------------- search with zero vectors

\* A MungerWisdom whose content the provider embeds as the zero vector.
Blank == [id |-> 4, category |-> "STORY", title |-> "T4", content |-> "", source |-> "S4", tags |-> <<>>, related_models |-> <<>>, year |-> None]

\* A store of one record or more, added by add_wisdom_batch, that may hold
\* Blank.
InitZero ==
    /\ \E ws \in UNION {[1..n -> MungerWisdom \cup {Blank}] : n \in 1..MaxRecords} :
         /\ data = [i \in 1..Len(ws) |-> Item(ws[i])]
         /\ embeddings = vstack(None, embed([i \in 1..Len(ws) |-> ws[i].content]))
    /\ data_file = save_data(data)
    /\ embeddings_file = save_embeddings(embeddings, None)
    /\ op = NoOp
    /\ instances = <<>>
    /\ written = <<>>
    /\ model = Some(1)
    /\ InitOthers

\* One search without filters, the provider answering.
NextZero ==
    /\ op.name = "init"
    /\ UNCHANGED <<instances, written, others>>
    /\ \E q \in Queries, k \in 0..MaxTopK : search(q, k, None, None, FALSE)
    /\ embed_model

SpecZero == InitZero /\ [][NextZero]_vars

\* ------------------------------------------------------------------ reads

\* A str as the sequence of its characters, for the strings whose characters
\* search_by_mental_model looks at.
chars(s) ==
    CASE s = "Inversion" -> <<"I", "n", "v", "e", "r", "s", "i", "o", "n">>
      [] s = "Incentives" -> <<"I", "n", "c", "e", "n", "t", "i", "v", "e", "s">>
      [] s = "incentive" -> <<"i", "n", "c", "e", "n", "t", "i", "v", "e">>
      [] s = "Margin" -> <<"M", "a", "r", "g", "i", "n">>
      [] s = "," -> <<",">>
      [] s = "" -> <<>>

\* The characters of a string given as its pieces (see join).
RECURSIVE text(_)
text(pieces) == IF pieces = <<>> THEN <<>> ELSE chars(Head(pieces)) \o text(Tail(pieces))

Upper == <<"A", "B", "C", "D", "E", "F", "G", "H", "I", "J", "K", "L", "M", "N", "O", "P", "Q", "R", "S", "T", "U", "V", "W", "X", "Y", "Z">>

Lower == <<"a", "b", "c", "d", "e", "f", "g", "h", "i", "j", "k", "l", "m", "n", "o", "p", "q", "r", "s", "t", "u", "v", "w", "x", "y", "z">>

\* str.lower() of a character sequence.
lower(cs) == [i \in 1..Len(cs) |-> IF \E u \in 1..Len(Upper) : Upper[u] = cs[i] THEN Lower[CHOOSE u \in 1..Len(Upper) : Upper[u] = cs[i]] ELSE cs[i]]

\* sub in s, for two strs: s has sub as a run of consecutive characters.
contains(s, sub) == \E k \in 0..(Len(s) - Len(sub)) : SubSeq(s, k + 1, k + Len(sub)) = sub

\* model_match comparing the name with each related model as a whole.
model_match_whole(r, model_name) ==
    \E i \in 1..Len(r["metadata"]["related_models"]) : lower(chars(r["metadata"]["related_models"][i])) = lower(chars(model_name))

\* r["model_match"]: model_name.lower() in the lower-cased joined string of
\* related models of the result r.
model_match(r, model_name) ==
    LET related == lower(text(r["metadata"]["related_models"]))
    IN contains(related, lower(chars(model_name)))

\* The sort key (not model_match, distance), and the order of two keys.
key(x) == <<IF x["model_match"] THEN 0 ELSE 1, x["distance"]>>

key_less(a, b) == a[1] < b[1] \/ (a[1] = b[1] /\ a[2] < b[2])

\* list.sort(key=...): a stable sort, equal keys keep their order.
RECURSIVE insert(_, _)
insert(sorted, x) ==
    IF sorted = <<>> THEN <<x>>
    ELSE IF key_less(key(x), key(Head(sorted))) THEN <<x>> \o sorted
    ELSE <<Head(sorted)>> \o insert(Tail(sorted), x)

RECURSIVE sort(_)
sort(l) == IF l = <<>> THEN <<>> ELSE insert(sort(SubSeq(l, 1, Len(l) - 1)), l[Len(l)])

\* search_by_mental_model(model_name, n_results): search(model_name,
\* n_results * 2) without filters, each result marked with model_match, the
\* list sorted and cut to n_results.  op.results keeps what search
\* returned, op.returned the list handed back.
search_by_mental_model(model_name, n_results, provider_fails) ==
    LET call == [NoOp EXCEPT !.name = "search_by_mental_model", !.query = Some(model_name), !.n_results = n_results, !.provider_fails = provider_fails]
    IN /\ UNCHANGED <<data, embeddings, data_file, embeddings_file>>
       /\ IF answers_empty(data, embeddings)
          THEN op' = [call EXCEPT !.returned = <<>>]
          ELSE IF provider_fails
          THEN op' = [call EXCEPT !.raised = TRUE, !.error = EncodeError, !.embed_calls = 1]
          ELSE LET query_embedding == embed(<<model_name>>)[1]
               IN \E sims \in {similarities(embeddings[1], query_embedding)} :
                  \E order \in argsort(sims) :
                  \E indices \in {Reverse(order)} :
                  \E picked \in {walk(data, indices, 1, <<>>, n_results * 2, None, None)} :
                  \E results \in {[i \in 1..Len(picked) |-> result(data[picked[i]], sims[picked[i]])]} :
                  \E marked \in {[i \in 1..Len(results) |-> [id |-> results[i].id, content |-> results[i].content, metadata |-> results[i].metadata, distance |-> results[i].distance, model_match |-> model_match(results[i], model_name)]]} :
                  \E sorted \in {sort(marked)} :
                    op' = [call EXCEPT !.embed_calls = 1, !.similarities = sims, !.indices = indices, !.picked = picked, !.results = results, !.returned = SubSeq(sorted, 1, IF n_results < Len(sorted) THEN n_results ELSE Len(sorted))]

\* random.choice picking any record of d, in the list or not.
random_choice_any(d) == {Item(w) : w \in MungerWisdom}

\* The outcomes of random.choice(d) for a non-empty list d.
random_choice(d) == {d[i] : i \in 1..Len(d)}

\* get_random_wisdom(): None for an empty list, else the id, content and
\* metadata of the record random.choice picks.
get_random_wisdom ==
    /\ UNCHANGED <<data, embeddings, data_file, embeddings_file>>
    /\ IF data = <<>>
       THEN op' = [NoOp EXCEPT !.name = "get_random_wisdom", !.returned = None]
       ELSE \E item \in random_choice(data) :
              op' = [NoOp EXCEPT !.name = "get_random_wisdom", !.returned = Some([id |-> item["id"], content |-> item["content"], metadata |-> [category |-> item["category"], title |-> item["title"], source |-> item["source"], tags |-> join(item["tags"]), related_models |-> join(item["related_models"])]])]

\* get_count(): len(self._data).
get_count ==
    /\ UNCHANGED <<data, embeddings, data_file, embeddings_file>>
    /\ op' = [NoOp EXCEPT !.name = "get_count", !.returned = Len(data)]

\* list(...) of the category of every record, repeats kept.
list_of_all(d) == {[i \in 1..Len(d) |-> d[i]["category"]]}

\* list(set(item["category"] for item in d)): the lists that hold every
\* category of d once; the order of a set is not fixed.
list_of_set(d) ==
    LET categories == {d[i]["category"] : i \in 1..Len(d)}
    IN {l \in UNION {[1..n -> categories] : n \in 0..Len(d)} :
          /\ \A i, j \in 1..Len(l) : i # j => l[i] # l[j]
          /\ \A c \in categories : \E i \in 1..Len(l) : l[i] = c}

\* get_all_categories().
get_all_categories ==
    /\ UNCHANGED <<data, embeddings, data_file, embeddings_file>>
    /\ \E l \in list_of_set(data) : op' = [NoOp EXCEPT !.name = "get_all_categories", !.returned = l]

\* The names search_by_mental_model is called with.
ModelNames == {"Inversion", "incentive", "Margin", ""}

\* One read on a store as InitSearch gives it; search without filters, which
\* NextSearch covers.
NextRead ==
    /\ op.name = "init"
    /\ UNCHANGED <<instances, written, others>>
    /\ \/ \E q \in Queries, k \in 0..MaxTopK, f \in BOOLEAN : search(q, k, None, None, f)
       \/ \E m \in ModelNames, k \in 0..MaxTopK, f \in BOOLEAN : search_by_mental_model(m, k, f)
       \/ get_random_wisdom
       \/ get_count
       \/ get_all_categories
    /\ embed_model

SpecRead == InitSearch /\ [][NextRead]_vars

\* ------------------------------------------------------ opening a store

\* A directory as a store left it (see InitSearch) in which each file may
\* since have been removed or damaged; no instance is constructed yet.
InitOpen ==
    /\ \E ws \in Stored :
         /\ data_file \in {None, Unparsable, save_data([i \in 1..Len(ws) |-> Item(ws[i])])}
         /\ embeddings_file \in {None, Unparsable, Some(embed([i \in 1..Len(ws) |-> ws[i].content]))}
    /\ data = <<>>
    /\ embeddings = None
    /\ op = [NoOp EXCEPT !.name = "closed"]
    /\ instances = <<>>
    /\ written = <<>>
    /\ model = None
    /\ InitOthers

\* TRUE when the caller holds an instance: a constructor that raises returns
\* none.
usable == op.name # "closed" /\ ~(op.name = "open" /\ op.raised)

\* The store is constructed, then records are added to and deleted from the
\* instance, if there is one.
NextOpen ==
    /\ UNCHANGED <<instances, written, others>>
    /\ \/ op.name = "closed" /\ open
       \/ usable /\ \E w \in MungerWisdom, f \in BOOLEAN : add_wisdom(w, f)
       \/ usable /\ \E u \in UUIDs : delete(u)
    /\ embed_model

SpecOpen == InitOpen /\ [][NextOpen]_vars

\* ------------------------------------------- two instances, one directory

\* The instances are numbered 1 and 2.
Instances == {1, 2}

\* Two instances constructed on the files a store left (see InitSearch),
\* each about to call one operation.  pc is where an instance is: "ready",
\* "save_data" and "save_embeddings" before the write of _save of that name,
\* "saved" after _save, "returned" after a call that did not save.
InitRace ==
    /\ \E ws \in Stored :
         /\ Len(ws) + MaxBatch <= MaxRecords
         /\ data_file = save_data([i \in 1..Len(ws) |-> Item(ws[i])])
         /\ embeddings_file = Some(embed([i \in 1..Len(ws) |-> ws[i].content]))
    /\ instances = [i \in Instances |-> [data |-> load_data(data_file), embeddings |-> load_embeddings(embeddings_file), pc |-> "ready"]]
    /\ written = <<>>
    /\ data = <<>>
    /\ embeddings = None
    /\ op = NoOp
    /\ model = None
    /\ InitOthers

\* Instance i runs an operation up to its call of _save: add_wisdom,
\* add_wisdom_batch of a non-empty list, or delete, which returns without
\* saving when no record matches.  d and e are the attributes the operation
\* assigns.
call(i, d, e, saves) ==
    /\ instances[i].pc = "ready"
    /\ instances' = [instances EXCEPT ![i] = [data |-> d, embeddings |-> e, pc |-> IF saves THEN "save_data" ELSE "returned"]]
    /\ UNCHANGED <<data, embeddings, data_file, embeddings_file, op, written>>

call_add_wisdom(i, wisdom) ==
    call(i, Append(instances[i].data, Item(wisdom)), vstack(instances[i].embeddings, embed(<<wisdom.content>>)), TRUE)

call_add_wisdom_batch(i, wisdom_items) ==
    /\ wisdom_items # <<>>
    /\ call(i, instances[i].data \o [n \in 1..Len(wisdom_items) |-> Item(wisdom_items[n])], vstack(instances[i].embeddings, embed([n \in 1..Len(wisdom_items) |-> wisdom_items[n].content])), TRUE)

call_delete(i, wisdom_id) ==
    LET n == first_match(instances[i].data, str(wisdom_id))
    IN IF n = 0
       THEN call(i, instances[i].data, instances[i].embeddings, FALSE)
       ELSE call(i, RemoveAt(instances[i].data, n), delete_row(instances[i].embeddings, n), TRUE)

\* The first write of _save: json.dump of the records of instance i.
write_data(i) ==
    /\ instances[i].pc = "save_data"
    /\ data_file' = save_data(instances[i].data)
    /\ instances' = [instances EXCEPT ![i].pc = "save_embeddings"]
    /\ written' = Append(written, [instance |-> i, file |-> "data_file"])
    /\ UNCHANGED <<data, embeddings, embeddings_file, op>>

\* write_embeddings writing nothing.
write_embeddings_skipped(i) ==
    /\ instances[i].pc = "save_embeddings"
    /\ instances' = [instances EXCEPT ![i].pc = "saved"]
    /\ written' = Append(written, [instance |-> i, file |-> "embeddings_file"])
    /\ UNCHANGED <<data, embeddings, data_file, embeddings_file, op>>

\* The second write of _save: np.save of the matrix of instance i, if it
\* has one.
write_embeddings(i) ==
    /\ instances[i].pc = "save_embeddings"
    /\ embeddings_file' = save_embeddings(instances[i].embeddings, embeddings_file)
    /\ instances' = [instances EXCEPT ![i].pc = "saved"]
    /\ written' = Append(written, [instance |-> i, file |-> "embeddings_file"])
    /\ UNCHANGED <<data, embeddings, data_file, op>>

\* The instances run in separate processes: their steps interleave in any
\* order, nothing locking the files.
NextRace ==
    /\ UNCHANGED <<model, others>>
    /\ \E i \in Instances :
         \/ \E w \in MungerWisdom : call_add_wisdom(i, w)
         \/ \E ws \in Batches : call_add_wisdom_batch(i, ws)
         \/ \E u \in UUIDs : call_delete(i, u)
         \/ write_data(i)
         \/ write_embeddings(i)

SpecRace == InitRace /\ [][NextRace]_vars

\* -------------------------------------------------------------- ingestion

\* Most chunks _chunk_text is taken to return for one text.
MaxChunks == 2

\* The chunks of the texts handed to _process_text, and len(chunk.strip())
\* of each.
ChunkTexts == {"chunk of 49", "chunk of 50", "chunk of 800"}

strip_len(chunk) ==
    CASE chunk = "chunk of 49" -> 49
      [] chunk = "chunk of 50" -> 50
      [] chunk = "chunk of 800" -> 800

\* A text, given as the list of chunks _chunk_text returns for it (never an
\* empty list).
Texts == UNION {[1..n -> ChunkTexts] : n \in 1..MaxChunks}

\* The category strings the callers pass: values of the enumeration and
\* strings that are none.
CategoryStrings == {"story", "Quote", ""}

\* parse_category with STORY for the strings that are no value.
parse_category_default_story(category) ==
    IF \E member \in DOMAIN WisdomCategory : WisdomCategory[member] = category
    THEN CHOOSE member \in DOMAIN WisdomCategory : WisdomCategory[member] = category
    ELSE "STORY"

\* WisdomCategory(category), ValueError replaced by WisdomCategory.QUOTE:
\* the member whose value is category, else QUOTE.
parse_category(category) ==
    IF \E member \in DOMAIN WisdomCategory : WisdomCategory[member] = category
    THEN CHOOSE member \in DOMAIN WisdomCategory : WisdomCategory[member] = category
    ELSE "QUOTE"

\* _extract_tags(chunk): the tags whose keywords the chunk holds.
extract_tags(chunk) == IF chunk = "chunk of 800" THEN <<"investing", "wisdom">> ELSE <<>>

\* uuid4() for the n-th object made by a call: an id no record of d carries.
RECURSIVE highest(_)
highest(d) == IF d = <<>> THEN 0 ELSE (IF d[1].id[2] > highest(Tail(d)) THEN d[1].id[2] ELSE highest(Tail(d)))

uuid4(d, n) == highest(d) + n

\* The wisdom_items of _process_text for chunks from index i on, made being
\* the number of objects made so far: chunks whose stripped length is under
\* 50 are skipped; the title names the part when there are several chunks.
RECURSIVE wisdom_items(_, _, _, _, _, _, _)
wisdom_items(d, chunks, i, made, wisdom_category, title, source) ==
    IF i > Len(chunks) THEN <<>>
    ELSE IF strip_len(chunks[i]) < 50
    THEN wisdom_items(d, chunks, i + 1, made, wisdom_category, title, source)
    ELSE <<[id |-> uuid4(d, made + 1), category |-> wisdom_category, title |-> IF Len(chunks) > 1 THEN <<title, "Part", i>> ELSE title, content |-> chunks[i], source |-> source, tags |-> extract_tags(chunks[i]), related_models |-> <<>>, year |-> None]>>
         \o wisdom_items(d, chunks, i + 1, made + 1, wisdom_category, title, source)

\* _process_text(text, title, source, category), chunks being
\* _chunk_text(text): one add_wisdom_batch of the items when there are some.
\* op.batches keeps the lists add_wisdom_batch was called with, op.returned
\* the number returned.
process_text(chunks, title, source, category, provider_fails) ==
    \E items \in {wisdom_items(data, chunks, 1, 0, parse_category(category), title, source)} :
    \E this \in {[NoOp EXCEPT !.name = "_process_text", !.query = Some(category), !.wisdom = chunks, !.provider_fails = provider_fails]} :
       /\ Len(data) + Len(items) <= MaxRecords
       /\ IF items = <<>>
          THEN /\ op' = [this EXCEPT !.returned = 0]
               /\ UNCHANGED <<data, embeddings, data_file, embeddings_file>>
          ELSE IF provider_fails
          THEN /\ op' = [this EXCEPT !.batches = <<items>>, !.raised = TRUE, !.error = EncodeError, !.embed_calls = 1]
               /\ UNCHANGED <<data, embeddings, data_file, embeddings_file>>
          ELSE \E d \in {data \o [i \in 1..Len(items) |-> Item(items[i])]} :
               \E e \in {vstack(embeddings, embed([i \in 1..Len(items) |-> items[i].content]))} :
                  /\ data' = d
                  /\ embeddings' = e
                  /\ data_file' = save_data(d)
                  /\ embeddings_file' = save_embeddings(e, embeddings_file)
                  /\ op' = [this EXCEPT !.batches = <<items>>, !.embed_calls = 1, !.returned = Len(items)]

\* One text is ingested into a store as InitSearch gives it.
NextIngest ==
    /\ op.name = "init"
    /\ UNCHANGED <<instances, written, others>>
    /\ \E chunks \in Texts, category \in CategoryStrings, f \in BOOLEAN : process_text(chunks, "Title", "source.txt", category, f)
    /\ embed_model

SpecIngest == InitSearch /\ [][NextIngest]_vars

\* ---------------------------------------------------------------- seeding

\* The built-in objects, one for each of _get_quotes,
\* _get_mental_model_wisdom, _get_principles and _get_speech_excerpts; every
\* call makes them anew, with new ids.
built_in(d) == <<
    [id |-> uuid4(d, 1), category |-> "QUOTE", title |-> "On Learning", content |-> "built-in quote", source |-> "Charlie Munger", tags |-> <<"learning">>, related_models |-> <<>>, year |-> None],
    [id |-> uuid4(d, 2), category |-> "MENTAL_MODEL", title |-> "Mental Model: Inversion", content |-> "built-in model", source |-> "Charlie Munger's Mental Models", tags |-> <<"mental_model">>, related_models |-> <<"Inversion">>, year |-> None],
    [id |-> uuid4(d, 3), category |-> "PRINCIPLE", title |-> "Principle", content |-> "built-in principle", source |-> "Charlie Munger's Principles", tags |-> <<"principle">>, related_models |-> <<>>, year |-> None],
    [id |-> uuid4(d, 4), category |-> "SPEECH_EXCERPT", title |-> "Speech", content |-> "built-in speech", source |-> "USC Law School Commencement", tags |-> <<"speech">>, related_models |-> <<>>, year |-> Some(2007)] >>

\* already_seeded finding no store seeded.
already_seeded_never(d) == FALSE

\* store.get_count() > 0
already_seeded(d) == Len(d) > 0

\* seed_munger_wisdom(): a new instance on the files; 0 when it holds a
\* record, else one add_wisdom_batch of the built-in objects and their
\* number.
seed_munger_wisdom(provider_fails) ==
    \E d0 \in {load_data(data_file)} :
    \E e0 \in {load_embeddings(embeddings_file)} :
    \E this \in {[NoOp EXCEPT !.name = "seed_munger_wisdom", !.provider_fails = provider_fails]} :
       IF already_seeded(d0)
       THEN /\ data' = d0
            /\ embeddings' = e0
            /\ op' = [this EXCEPT !.returned = 0]
            /\ UNCHANGED <<data_file, embeddings_file>>
       ELSE \E items \in {built_in(d0)} :
            IF provider_fails
            THEN /\ data' = d0
                 /\ embeddings' = e0
                 /\ op' = [this EXCEPT !.batches = <<items>>, !.raised = TRUE, !.error = EncodeError, !.embed_calls = 1]
                 /\ UNCHANGED <<data_file, embeddings_file>>
            ELSE \E d \in {d0 \o [i \in 1..Len(items) |-> Item(items[i])]} :
                 \E e \in {vstack(e0, embed([i \in 1..Len(items) |-> items[i].content]))} :
                    /\ data' = d
                    /\ embeddings' = e
                    /\ data_file' = save_data(d)
                    /\ embeddings_file' = save_embeddings(e, embeddings_file)
                    /\ op' = [this EXCEPT !.batches = <<items>>, !.embed_calls = 1, !.returned = Len(items)]

\* Seeding among the other operations on the directory.
NextSeed ==
    \/ Next
    \/ /\ UNCHANGED <<instances, written, others>>
       /\ \E f \in BOOLEAN : seed_munger_wisdom(f)
       /\ embed_model

SpecSeed == Init /\ [][NextSeed]_vars

\* ------------------------------------------------- the store in use

\* The operations that assign no attribute of the store and write no file.
Reads == {"search", "search_by_mental_model", "get_random_wisdom", "get_count", "get_all_categories"}

\* Every operation of a store in use: those of Next and the reads, the
\* searches without filters and for MaxTopK results.  A read leaves the store as it was, so what may follow
\* it is what may follow the state it was called in: a behaviour is followed
\* up to its first read.
NextMachine ==
    /\ op.name \notin Reads
    /\ UNCHANGED <<instances, written, others>>
    /\ \/ Next
       \/ \E q \in Queries, f \in BOOLEAN : search(q, MaxTopK, None, None, f)
       \/ \E m \in ModelNames, f \in BOOLEAN : search_by_mental_model(m, MaxTopK, f)
       \/ get_random_wisdom
       \/ get_count
       \/ get_all_categories
    /\ embed_model

SpecMachine == Init /\ [][NextMachine]_vars

\* --------------------------------------------------------------- chunking

\* The defaults of _chunk_text, and the distances its search for a sentence
\* end reaches back from and beyond the end of a chunk.
chunk_size == 1000

overlap == 100

lookback == 200

lookahead == 50

\* The texts handed to _chunk_text are of up to MaxSpans half chunks.
MaxSpans == 4

\* len(text) once the whitespace is normalised: the multiples of half a
\* chunk, and the lengths next to those at which _chunk_text changes course.
TextLens == {k * (chunk_size \div 2) : k \in 0..MaxSpans} \cup {1, chunk_size + 1}

Min(a, b) == IF a < b THEN a ELSE b

Max(a, b) == IF a < b THEN b ELSE a

\* " ".join(text.split()) leaves single spaces between words: of a text of
\* n characters, the first and the last are no space, nor are two adjacent
\* characters both.
may_be_space(n, i) == 0 < i /\ i < n - 1

\* text.rfind(punct, lo, hi) over the punctuation tried: the index found, any
\* position of text[lo:hi], or -1.
rfind(n, lo, hi) == {-1} \cup (lo..(Min(hi, n) - 1))

\* text[from:to].strip(), as the positions <<a, b>> of text[a:b]: a space at
\* either end of the slice is dropped; a slice that ends a sentence ends in
\* punctuation.
strip(n, from, to, ends_sentence) ==
    {<<from + p[1], to - p[2]>> : p \in {q \in {0, 1} \X {0, 1} :
        /\ q[1] = 1 => from < to /\ may_be_space(n, from)
        /\ q[2] = 1 => from + q[1] < to - 1 /\ ~ends_sentence /\ may_be_space(n, to - 1)}}

\* start = end - overlap, with no overlap kept.
next_start_at_end(end) == end

\* start = end - overlap
next_start(end) == end - overlap

\* _chunk_text is called with a text of n characters when normalised: a
\* text of at most chunk_size is returned as the one chunk, a longer one
\* enters the loop.
chunk_text(n) ==
    /\ frame.pc = "idle"
    /\ frame' = IF n <= chunk_size
                THEN [NoFrame EXCEPT !.pc = "returned", !.len = n, !.end = n, !.covered = n, !.chunks = 1]
                ELSE [NoFrame EXCEPT !.pc = "loop", !.len = n]

\* The first half of an iteration of the loop, up to the slice: where the
\* text goes on beyond the chunk, its end is moved to the last sentence end
\* found near it.
chunk_text_search ==
    /\ frame.pc = "loop"
    /\ LET n == frame.len
           start == frame.start
           search_start == Max(start + chunk_size - lookback, start)
       IN \E idx \in IF start + chunk_size < n THEN rfind(n, search_start, start + chunk_size + lookahead) ELSE {-1} :
            frame' = [frame EXCEPT !.pc = "slice", !.idx = idx, !.end = IF idx > start THEN idx + 1 ELSE start + chunk_size]

\* The second half: the stripped slice is appended if it is not empty, and
\* the next slice starts overlap before the end of this one; the loop ends
\* when that is beyond the text.  covered is the length of the prefix of the
\* text that the chunks appended so far contain.
chunk_text_slice ==
    /\ frame.pc = "slice"
    /\ \E chunk \in strip(frame.len, frame.start, Min(frame.end, frame.len), frame.idx > frame.start) :
         frame' = [frame EXCEPT !.pc = IF next_start(frame.end) < frame.len THEN "loop" ELSE "returned",
                                !.start = next_start(frame.end),
                                !.chunks = IF chunk[1] < chunk[2] THEN @ + 1 ELSE @,
                                !.covered = IF chunk[1] < chunk[2] /\ chunk[1] <= @ THEN Max(@, chunk[2]) ELSE @]

\* A call of _chunk_text on a text of any of the lengths.
NextChunk ==
    /\ UNCHANGED <<store_vars, advisor, db>>
    /\ \/ \E n \in TextLens : chunk_text(n)
       \/ chunk_text_search
       \/ chunk_text_slice

\* The call runs on: no iteration is left untaken.
SpecChunk == Init /\ [][NextChunk]_vars /\ WF_vars(NextChunk)

\* ---------------------------------------------------------------- advisor

\* settings.retrieval_top_k, the n_results of the advisor's search.
retrieval_top_k == 5

\* The users that calls name: u1 may have a profile, u2 has none.
UserIds == {"u1", "u2"}

\* The questions and messages: "risk" is a keyword of get_relevant_models,
\* "alpha" holds none.
Questions == {"alpha", "risk"}

\* What generate_response returns: a str, or an iterator when streaming.
generate_response(stream) == IF stream THEN "iterator" ELSE "response"

\* UserRepository.get_default(): the first profile.
get_default(d) == IF d.profiles = <<>> THEN None ELSE Some(d.profiles[1])

\* UserRepository.get(user_id)
get_profile(d, user_id) == IF \E i \in 1..Len(d.profiles) : d.profiles[i] = user_id THEN Some(user_id) ELSE None

\* _load_user_context(user_id): the profile; without a user_id, that of the
\* default user if there is one.
load_user_context(d, user_id) ==
    IF user_id = None
    THEN IF get_default(d) = None THEN None ELSE get_profile(d, get_default(d)[1])
    ELSE get_profile(d, user_id[1])

\* ConversationRepository.get(conversation_id)
get_conversation(d, conversation_id) ==
    LET found == {i \in 1..Len(d.conversations) : d.conversations[i].id = conversation_id}
    IN IF found = {} THEN None ELSE Some(d.conversations[CHOOSE i \in found : TRUE])

\* Conversation(user_id=...).id: uuid4() is an id no conversation has, in
\* the database or in an open session.
new_conversation_id(d, session) ==
    LET ids == {0} \cup {d.conversations[i].id : i \in 1..Len(d.conversations)} \cup {session[i].id : i \in 1..Len(session)}
    IN 1 + CHOOSE m \in ids : \A k \in ids : k <= m

\* Message(role=role, content=content)
Message(role, content) == [role |-> role, content |-> content]

\* get_relevant_models(question), as the lists of names it may return: the
\* models filed under the keywords the question holds, in any of the orders
\* the set of their names may be iterated in; the core models if it holds
\* no keyword.
get_relevant_models(question) ==
    IF question = "risk"
    THEN {l \in [1..3 -> {"Margin of Safety", "Base Rates", "Redundancy"}] : \A i, j \in 1..3 : i # j => l[i] # l[j]}
    ELSE {<<"Inversion", "Incentives", "Circle of Competence", "Margin of Safety">>}

\* build_context_prompt with the section of retrieved wisdom in every
\* prompt.
build_context_prompt_always(user_context, relevant_wisdom, relevant_models) ==
    (IF user_context # <<>> THEN <<"## User Context">> ELSE <<>>)
    \o <<"## Relevant Wisdom from Your Past">>
    \o (IF relevant_models # <<>> THEN <<"## Relevant Mental Models">> ELSE <<>>)

\* build_context_prompt(user_context, relevant_wisdom, relevant_models): the
\* headings of the context message, one for each part that is not empty.
build_context_prompt(user_context, relevant_wisdom, relevant_models) ==
    (IF user_context # <<>> THEN <<"## User Context">> ELSE <<>>)
    \o (IF relevant_wisdom # <<>> THEN <<"## Relevant Wisdom from Your Past">> ELSE <<>>)
    \o (IF relevant_models # <<>> THEN <<"## Relevant Mental Models">> ELSE <<>>)

\* assemble_full_prompt: the system message, the context message if it has
\* a part, the user message; a message is its role and its headings.
assemble_full_prompt(question, profile, relevant_wisdom, relevant_models, session_context) ==
    LET context == build_context_prompt(session_context, relevant_wisdom, relevant_models)
    IN <<[role |-> "system", parts |-> <<"system prompt">> \o (IF profile # None THEN <<"## About This Person">> ELSE <<>>)]>>
       \o (IF context # <<>> THEN <<[role |-> "system", parts |-> context]>> ELSE <<>>)
       \o <<[role |-> "user", parts |-> <<question>>]>>

\* `if user_id and not stream` without the test of stream.
stores_streams(user_id, stream) == user_id # None

\* `if user_id and not stream`: ask stores the exchange.
stores(user_id, stream) == user_id # None /\ ~stream

\* _store_conversation in a session of its own, committed: a conversation of
\* the question and the response, ended.
store_conversation(d, session, user_id, question, response) ==
    [d EXCEPT !.conversations = Append(@, [id |-> new_conversation_id(d, session), user_id |-> user_id, ended |-> TRUE, messages |-> <<Message("user", question), Message("assistant", response)>>])]

\* session.commit() of the session of chat: the conversation it holds is
\* written, a new row if the call created it.
commit(d, conversation, created) ==
    [d EXCEPT !.conversations = IF created THEN Append(@, conversation)
                                ELSE [i \in 1..Len(@) |-> IF @[i].id = conversation.id THEN conversation ELSE @[i]]]

\* ask up to _retrieve_wisdom: the locals once the user's context is loaded.
begin_ask(question, user_id, session_context, stream) ==
    [NoAsk EXCEPT !.pc = "retrieve", !.question = question, !.user_id = user_id, !.session_context = session_context, !.stream = stream, !.profile = load_user_context(db, user_id), !.db0 = db]

\* ask(question, user_id, stream=stream) is called on the advisor.
ask_call(question, user_id, stream) ==
    /\ advisor.ask.pc = "idle" /\ advisor.chat.pc = "idle"
    /\ advisor' = [advisor EXCEPT !.ask = begin_ask(question, user_id, <<>>, stream)]
    /\ UNCHANGED <<store_vars, frame, db>>

\* _retrieve_wisdom, the advisor having no store yet: the property
\* vector_store constructs one; if the constructor raises, the advisor keeps
\* none and the error is caught.
ask_construct ==
    /\ advisor.ask.pc = "retrieve" /\ ~advisor.vector_store
    /\ open
    /\ embed_model
    /\ advisor' = IF op'.raised
                  THEN [advisor EXCEPT !.ask.pc = "generate", !.ask.relevant_wisdom = <<>>, !.ask.store_raised = TRUE]
                  ELSE [advisor EXCEPT !.vector_store = TRUE]
    /\ UNCHANGED <<instances, written, frame, db>>

\* _retrieve_wisdom, the store constructed: search is called; its error, if
\* it raises, is caught.
ask_search(provider_fails) ==
    /\ advisor.ask.pc = "retrieve" /\ advisor.vector_store
    /\ search(advisor.ask.question, retrieval_top_k, None, None, provider_fails)
    /\ embed_model
    /\ advisor' = IF op'.raised
                  THEN [advisor EXCEPT !.ask.pc = "generate", !.ask.relevant_wisdom = <<>>, !.ask.store_raised = TRUE]
                  ELSE [advisor EXCEPT !.ask.pc = "generate", !.ask.relevant_wisdom = op'.results]
    /\ UNCHANGED <<instances, written, frame, db>>

\* The rest of ask: the prompt is assembled and generate_response called;
\* llm_fails: it raises.  The exchange is stored if stores says so; locked:
\* the database refuses the write of a second session while the session of
\* chat holds writes that are not committed.
ask_generate(llm_fails, locked) ==
    LET a == advisor.ask
    IN /\ a.pc = "generate"
       /\ locked => advisor.chat.pc = "asking" /\ ~llm_fails /\ stores(a.user_id, a.stream)
       /\ \E relevant_models \in get_relevant_models(a.question) :
          \E messages \in {assemble_full_prompt(a.question, a.profile, a.relevant_wisdom, relevant_models, a.session_context)} :
          \E called \in {[a EXCEPT !.messages = messages, !.llm_calls = @ + 1]} :
          IF llm_fails
          THEN /\ advisor' = [advisor EXCEPT !.ask = [called EXCEPT !.pc = "raised", !.error = Some("APIError")]]
               /\ db' = db
          ELSE IF ~stores(a.user_id, a.stream)
          THEN /\ advisor' = [advisor EXCEPT !.ask = [called EXCEPT !.pc = "returned", !.response = Some(generate_response(a.stream))]]
               /\ db' = db
          ELSE IF locked
          THEN /\ advisor' = [advisor EXCEPT !.ask = [called EXCEPT !.pc = "raised", !.error = Some("OperationalError")]]
               /\ db' = db
          ELSE /\ advisor' = [advisor EXCEPT !.ask = [called EXCEPT !.pc = "returned", !.response = Some(generate_response(a.stream))]]
               /\ db' = store_conversation(db, IF advisor.chat.session = None THEN <<>> ELSE advisor.chat.session, a.user_id[1], a.question, IF a.stream THEN "" ELSE generate_response(a.stream))
       /\ UNCHANGED <<store_vars, frame>>

\* chat(message, conversation_id, user_id, stream) up to its call of ask: the
\* session is opened, the conversation fetched or created and the user
\* message added to it.  A conversation_id that is not found, or no profile
\* to create a conversation for, raises ValueError: get_session rolls back,
\* raises again and closes.
chat_call(message, conversation_id, user_id, stream) ==
    LET existing == IF conversation_id = None THEN None ELSE get_conversation(db, conversation_id[1])
        user == IF conversation_id = None /\ user_id = None THEN get_default(db) ELSE user_id
        this == [NoChat EXCEPT !.message = message, !.conversation_id = conversation_id, !.user_id = user_id, !.stream = stream, !.db0 = db]
    IN /\ advisor.ask.pc = "idle" /\ advisor.chat.pc = "idle"
       /\ IF (conversation_id # None /\ existing = None) \/ (conversation_id = None /\ user = None)
          THEN advisor' = [advisor EXCEPT !.chat = [this EXCEPT !.pc = "raised", !.error = Some("ValueError"), !.rollbacks = 1, !.closes = 1]]
          ELSE \E conversation \in {IF conversation_id # None THEN existing[1] ELSE [id |-> new_conversation_id(db, <<>>), user_id |-> user[1], ended |-> FALSE, messages |-> <<>>]} :
                 advisor' = [advisor EXCEPT !.ask = begin_ask(message, user, conversation.messages, stream),
                                 !.chat = [this EXCEPT !.pc = "asking", !.created = conversation_id = None, !.session = <<[conversation EXCEPT !.messages = Append(@, Message("user", message))]>>]]
       /\ UNCHANGED <<store_vars, frame, db>>

\* chat from the return of ask on.  If ask raised, get_session rolls back,
\* raises again and closes; otherwise the response is added unless it is
\* streamed, chat returns, and get_session commits and closes.
chat_return ==
    LET c == advisor.chat
        a == advisor.ask
    IN /\ c.pc = "asking" /\ a.pc \in {"returned", "raised"}
       /\ IF a.pc = "raised"
          THEN /\ advisor' = [advisor EXCEPT !.chat = [c EXCEPT !.pc = "raised", !.error = a.error, !.session = None, !.rollbacks = @ + 1, !.closes = @ + 1]]
               /\ db' = db
          ELSE \E conversation \in {IF c.stream THEN c.session[1] ELSE [c.session[1] EXCEPT !.messages = Append(@, Message("assistant", a.response[1]))]} :
               /\ advisor' = [advisor EXCEPT !.chat = [c EXCEPT !.pc = "returned", !.returned = Some(conversation.id), !.session = None, !.commits = @ + 1, !.closes = @ + 1]]
               /\ db' = commit(db, conversation, c.created)
       /\ UNCHANGED <<store_vars, frame>>

\* The conversation a database may hold before the calls.
Earlier == [id |-> 1, user_id |-> "u1", ended |-> FALSE, messages |-> <<Message("user", "beta"), Message("assistant", "response")>>]

\* The advisor of a new process: the files of the store are as a store of
\* at most one record left them, each since removed or damaged perhaps; the
\* database holds a profile or none and a conversation or none.
InitAdvisor ==
    /\ \E ws \in {s \in Stored : Len(s) <= 1} :
         /\ data_file \in {None, Unparsable, save_data([i \in 1..Len(ws) |-> Item(ws[i])])}
         /\ embeddings_file \in {None, Unparsable, Some(embed([i \in 1..Len(ws) |-> ws[i].content]))}
    /\ data = <<>>
    /\ embeddings = None
    /\ op = NoOp
    /\ instances = <<>>
    /\ written = <<>>
    /\ model = None
    /\ frame = NoFrame
    /\ advisor = NoAdvisor
    /\ db \in {[profiles |-> p, conversations |-> c] : p \in {<<>>, <<"u1">>}, c \in {<<>>, <<Earlier>>}}

\* One call of ask or of chat on the advisor, run to its end.
NextAdvisor ==
    \/ \E q \in Questions, u \in {None} \cup {Some(x) : x \in UserIds}, s \in BOOLEAN : ask_call(q, u, s)
    \/ ask_construct
    \/ \E f \in BOOLEAN : ask_search(f)
    \/ \E f \in BOOLEAN, l \in BOOLEAN : ask_generate(f, l)
    \/ \E m \in Questions, c \in {None, Some(1), Some(2)}, u \in {None} \cup {Some(x) : x \in UserIds}, s \in BOOLEAN : chat_call(m, c, u, s)
    \/ chat_return

SpecAdvisor == InitAdvisor /\ [][NextAdvisor]_vars

\* ----------------------------------------------------------------- claims

\* The rows of a matrix, an absent matrix having none.
Rows(e) == IF e = None THEN <<>> ELSE e[1]

\* s without its element at index i.
Without(s, i) == SubSeq(s, 1, i - 1) \o SubSeq(s, i + 1, Len(s))

\* TRUE when some record of d carries the id of uuid.
Present(d, uuid) == \E i \in 1..Len(d) : d[i].id = str(uuid)

\* C1: in every state reached by open, add_wisdom, add_wisdom_batch, delete
\* and clear, the record list has as many records as the embedding matrix has
\* rows, an absent matrix counting as zero rows.
C1_LengthInvariant == Len(data) = Len(Rows(embeddings))

\* C1 witness: a delete has left two records in a store that held more.
C1_Witness == op.name = "delete" /\ op.index = 1 /\ Len(data) = 2 /\ Len(Rows(embeddings)) = 2

\* C2: delete of a present id removes exactly one record, one carrying that
\* id, and the embedding row at the same index; the other records keep their
\* order and every remaining row is the embedding of the content of the
\* record at its position.
C2_DeleteRemovesOnePair ==
    [][(op'.name = "delete" /\ Present(data, op'.wisdom_id[1])) =>
         /\ \E i \in 1..Len(data) :
              /\ data[i].id = str(op'.wisdom_id[1])
              /\ data' = Without(data, i)
              /\ Rows(embeddings') = Without(Rows(embeddings), i)
         /\ Len(data') = Len(data) - 1
         /\ Len(Rows(embeddings')) = Len(Rows(embeddings)) - 1
         /\ \A n \in 1..Len(data') : Rows(embeddings')[n] = Encode(data'[n].content)]_vars

\* C2 witness: the second of three records, whose content differs from that
\* of the last one, has been deleted.
C2_Witness == op.name = "delete" /\ op.index = 2 /\ Len(data) = 2 /\ data[1].content # data[2].content

\* C3: after any sequence of operations a new instance opened on the same
\* directory holds the records of the writing instance, in order, and a
\* matrix with the same rows in the same order.
C3_FilesAgreeWithMemory ==
    /\ load_data(data_file) = data
    /\ Rows(load_embeddings(embeddings_file)) = Rows(embeddings)
    /\ Len(load_data(data_file)) = Len(Rows(load_embeddings(embeddings_file)))

\* C3 witness: a delete has emptied a store whose files remain, holding no
\* record and no row.
C3_Witness == op.name = "delete" /\ op.index = 1 /\ data = <<>> /\ data_file # None /\ embeddings_file # None

\* C4: after add_wisdom(r) a store opened on the same files has r's id,
\* category, title, content, source, tags, related_models and year in its
\* last record, and one record and one row more than before the add.
C4_AddRoundTrip ==
    [][(op'.name = "add_wisdom" /\ ~op'.raised) =>
         LET r == op'.wisdom[1]
             d == load_data(data_file')
             e == load_embeddings(embeddings_file')
             last == d[Len(d)]
         IN /\ Len(d) = Len(data) + 1
            /\ Len(Rows(e)) = Len(Rows(embeddings)) + 1
            /\ last.id = str(r.id)
            /\ last.category = WisdomCategory[r.category]
            /\ last.title = r.title
            /\ last.content = r.content
            /\ last.source = r.source
            /\ last.tags = r.tags
            /\ last.related_models = r.related_models
            /\ last.year = r.year]_vars

\* C4 witness: a record with a year has been added to a store holding one
\* without.
C4_Witness == op.name = "add_wisdom" /\ ~op.raised /\ Len(data) = 2 /\ data[1].year = None /\ data[2].year # None

\* C9: delete of an id no record carries raises nothing and leaves the
\* record list, the matrix and both files as they were.
C9_DeleteAbsentIsNoOp ==
    [][(op'.name = "delete" /\ ~Present(data, op'.wisdom_id[1])) =>
         /\ ~op'.raised
         /\ UNCHANGED <<data, embeddings, data_file, embeddings_file>>]_vars

\* C9 witness: delete found no match in a store of two records; and in a
\* store that has no files.
C9_Witness == op.name = "delete" /\ op.index = 0 /\ (Len(data) = 2 \/ data_file = None)

\* C10 as stated: a delete(id) that directly follows a delete(id) of the
\* same id changes nothing.
C10_DeleteTwiceSameAsOnce ==
    [][(op.name = "delete" /\ op'.name = "delete" /\ op'.wisdom_id = op.wisdom_id) =>
         UNCHANGED <<data, embeddings, data_file, embeddings_file>>]_vars

\* A search that computed a ranking: the store held records and the
\* provider answered.
SearchAnswered == op.name = "search" /\ ~op.raised /\ data # <<>>

\* The similarity search computed for record i.
Sim(i) == op.similarities[i]

\* TRUE when item carries one of the tags of the list l.
SharesTag(item, l) == \E t \in {l[i] : i \in 1..Len(l)} : \E j \in 1..Len(item.tags) : item.tags[j] = t

\* C5 as stated: on a non-empty store search returns at most n_results
\* results, each with a distance from 0 to 2, in order of non-decreasing
\* distance.
C5_SearchBounds ==
    SearchAnswered =>
        /\ Len(op.results) <= op.n_results
        /\ \A i \in 1..Len(op.results) : 0 <= op.results[i].distance /\ op.results[i].distance <= 2 * Scale
        /\ \A i, j \in 1..Len(op.results) : i < j => op.results[i].distance <= op.results[j].distance

\* The statement of C6, the tags filter being taken as applied when
\* tags_applied holds: search returns the first min(n_results, m) of the m
\* records that satisfy the filters, in ranking order; every returned record
\* has the requested category and shares a tag with the filter; no record
\* that satisfies the filters is left out while one of lower similarity is
\* returned.
FilterStatement(tags_applied) ==
    SearchAnswered =>
        LET Satisfies(i) ==
                /\ op.category # None => data[i].category = WisdomCategory[op.category[1]]
                /\ tags_applied => SharesTag(data[i], op.tags[1])
            matching == SelectSeq(op.indices, Satisfies)
            m == Len(matching)
        IN /\ op.picked = SubSeq(matching, 1, Min(op.n_results, m))
           /\ Len(op.results) = Min(op.n_results, m)
           /\ \A i \in 1..Len(op.results) :
                /\ op.results[i].id = data[op.picked[i]].id
                /\ op.category # None => op.results[i].metadata.category = WisdomCategory[op.category[1]]
                /\ Satisfies(op.picked[i])
           /\ \A i \in 1..Len(data) :
                (Satisfies(i) /\ ~ \E n \in 1..Len(op.picked) : op.picked[n] = i) =>
                    \A n \in 1..Len(op.picked) : Sim(i) <= Sim(op.picked[n])

\* C6 as stated: the tags filter applies whenever a tags list is supplied.
C6_FilterWhenSupplied == FilterStatement(op.tags # None)

\* C6 amended: the tags filter applies when the list supplied is not empty;
\* an empty list filters nothing.
C6_FilterWhenNonEmpty == FilterStatement(op.tags # None /\ op.tags[1] # <<>>)

\* C6 witness: three records of categories quote, quote and principle,
\* searched for quotes carrying one of two tags with n_results 3: one result.
C6_Witness ==
    /\ SearchAnswered
    /\ Len(data) = 3 /\ data[1].category = "quote" /\ data[2].category = "quote" /\ data[3].category = "principle"
    /\ op.category = Some("QUOTE") /\ op.tags = Some(<<"luck", "life">>) /\ op.n_results = 3
    /\ Len(op.results) = 1

\* C7 as stated: the ranking is by similarity descending and, of two records
\* of equal similarity, the one inserted earlier comes first.
C7_TiesByInsertionOrder ==
    SearchAnswered =>
        \A a, b \in 1..Len(op.indices) : a < b =>
            \/ Sim(op.indices[a]) > Sim(op.indices[b])
            \/ Sim(op.indices[a]) = Sim(op.indices[b]) /\ op.indices[a] < op.indices[b]

\* C7 amended: the ranking holds every record once, by similarity
\* descending, and results follow the ranking; the order of records of equal
\* similarity is not fixed.
C7_RankedBySimilarity ==
    SearchAnswered =>
        /\ Len(op.indices) = Len(data)
        /\ \A i \in 1..Len(data) : \E a \in 1..Len(op.indices) : op.indices[a] = i
        /\ \A a, b \in 1..Len(op.indices) : a < b => Sim(op.indices[a]) >= Sim(op.indices[b])
        /\ \A m, n \in 1..Len(op.picked) : m < n =>
             \E a, b \in 1..Len(op.indices) : a < b /\ op.indices[a] = op.picked[m] /\ op.indices[b] = op.picked[n]

\* C7 witness: two records of equal similarity are both returned, the one
\* inserted later first.
C7_Witness ==
    /\ SearchAnswered
    /\ \E m, n \in 1..Len(op.picked) : m < n /\ Sim(op.picked[m]) = Sim(op.picked[n]) /\ op.picked[m] > op.picked[n]
    /\ \E m, n \in 1..Len(op.picked) : Sim(op.picked[m]) > Sim(op.picked[n])

\* C8: on a store with no records search returns the empty list, raises
\* nothing and does not call the embedding provider, failing or not.
C8_EmptyStoreSearch ==
    (op.name = "search" /\ data = <<>>) =>
        /\ op.results = <<>>
        /\ ~op.raised
        /\ op.embed_calls = 0

\* C8 witness: a search with n_results > 0 on an emptied store whose
\* matrix has no rows, the provider failing.
C8_Witness == op.name = "search" /\ data = <<>> /\ embeddings = Some(<<>>) /\ op.provider_fails /\ op.n_results > 0 /\ op.results = <<>>

\* C11 as stated: no two entries of the record list carry the same id.
C11_UniqueIds == \A i, j \in 1..Len(data) : i # j => data[i].id # data[j].id

\* C12: clear leaves no record, no matrix and neither file, and raises
\* nothing, whether or not the files existed; so does a second clear.
C12_ClearEmptiesStore ==
    [][op'.name = "clear" =>
         /\ data' = <<>>
         /\ embeddings' = None
         /\ Len(Rows(embeddings')) = 0
         /\ data_file' = None
         /\ embeddings_file' = None
         /\ ~op'.raised]_vars

\* C12 witness: clear has run on a store that had no files.
C12_Witness == op.name = "clear" /\ ~op.raised /\ data = <<>> /\ embeddings = None /\ data_file = None /\ embeddings_file = None

\* The record of the store a result was built from (records that share an
\* id are equal).
RecordOf(r) == data[CHOOSE i \in 1..Len(data) : data[i].id = r.id]

\* TRUE when one of the related models of the record of r is name, letter
\* case apart.
NamesModel(r, name) == \E j \in 1..Len(RecordOf(r).related_models) : lower(chars(RecordOf(r).related_models[j])) = lower(chars(name))

\* TRUE when the related models of the record of r, joined by commas, have
\* name as a substring, letter case apart.
MentionsModel(r, name) == contains(lower(text(join(RecordOf(r).related_models))), lower(chars(name)))

\* The statement of C13, a record counting as matching when Matches holds:
\* search_by_mental_model returns at most n_results results, each one of the
\* at most 2 * n_results results of the search for the name; matching
\* records precede the others and each group is in order of non-decreasing
\* distance; when the store holds at most 2 * n_results records of which
\* exactly one matches, that record comes first.
MentalModelStatement(Matches(_, _)) ==
    (op.name = "search_by_mental_model" /\ ~op.raised) =>
        LET ret == op.returned
            name == op.query[1]
        IN /\ Len(ret) <= op.n_results
           /\ Len(op.results) <= 2 * op.n_results
           /\ \A i \in 1..Len(ret) : \E j \in 1..Len(op.results) : op.results[j] = [id |-> ret[i].id, content |-> ret[i].content, metadata |-> ret[i].metadata, distance |-> ret[i].distance]
           /\ \A a, b \in 1..Len(ret) : a < b => (Matches(ret[b], name) => Matches(ret[a], name))
           /\ \A a, b \in 1..Len(ret) : (a < b /\ (Matches(ret[a], name) <=> Matches(ret[b], name))) => ret[a].distance <= ret[b].distance
           /\ \A i \in 1..Len(data) :
                (/\ op.n_results >= 1
                 /\ Len(data) <= 2 * op.n_results
                 /\ Matches(data[i], name)
                 /\ \A j \in 1..Len(data) : j # i => ~Matches(data[j], name)) =>
                    (Len(ret) >= 1 /\ ret[1].id = data[i].id)

\* C13 as stated: the records that precede are those whose related_models
\* list contains the name.
C13_NamedModelFirst == MentalModelStatement(NamesModel)

\* C13 amended: the records that precede are those whose comma-joined
\* related models have the name as a substring, letter case apart.
C13_MentionedModelFirst == MentalModelStatement(MentionsModel)

\* C13 witness: of three records the only one that mentions the name, in
\* another letter case, is the last of the search for it and the first of
\* the two results returned.
C13_Witness ==
    /\ op.name = "search_by_mental_model" /\ ~op.raised
    /\ Len(data) = 3 /\ op.n_results = 2 /\ Len(op.results) = 3 /\ Len(op.returned) = 2
    /\ op.query = Some("incentive")
    /\ op.returned[1].id = op.results[3].id
    /\ op.returned[1].model_match /\ ~op.returned[2].model_match
    /\ op.returned[1].distance > op.returned[2].distance

\* C14: get_random_wisdom returns None exactly when the store has no record,
\* otherwise the id, content and metadata of a record of the list; it raises
\* nothing and leaves the list, the matrix and both files as they were.
C14_RandomIsStoredRecord ==
    [][op'.name = "get_random_wisdom" =>
         /\ ~op'.raised
         /\ op'.returned = None <=> data = <<>>
         /\ op'.returned # None =>
              \E i \in 1..Len(data) :
                 /\ op'.returned[1].id = data[i].id
                 /\ op'.returned[1].content = data[i].content
                 /\ op'.returned[1].metadata.category = data[i].category
                 /\ op'.returned[1].metadata.title = data[i].title
                 /\ op'.returned[1].metadata.source = data[i].source
                 /\ op'.returned[1].metadata.tags = join(data[i].tags)
                 /\ op'.returned[1].metadata.related_models = join(data[i].related_models)
         /\ UNCHANGED <<data, embeddings, data_file, embeddings_file>>]_vars

\* C14 witness: of three records the second, which differs from the first,
\* has been returned.
C14_Witness ==
    /\ op.name = "get_random_wisdom" /\ ~op.raised
    /\ Len(data) = 3 /\ data[1].id # data[2].id
    /\ op.returned # None /\ op.returned[1].id = data[2].id /\ op.returned[1].content = data[2].content

\* C16: search, search_by_mental_model, get_random_wisdom, get_count and
\* get_all_categories leave the list, the matrix and both files as they
\* were and raise nothing on a store without records; get_count returns the
\* number of records; get_all_categories returns every category a record
\* carries once and nothing else.
C16_ReadsChangeNothing ==
    [][op'.name \in Reads =>
         /\ UNCHANGED <<data, embeddings, data_file, embeddings_file>>
         /\ data = <<>> => ~op'.raised
         /\ op'.name = "get_count" => (~op'.raised /\ op'.returned = Len(data))
         /\ op'.name = "get_all_categories" =>
              /\ ~op'.raised
              /\ \A i, j \in 1..Len(op'.returned) : i # j => op'.returned[i] # op'.returned[j]
              /\ \A i \in 1..Len(op'.returned) : \E n \in 1..Len(data) : data[n].category = op'.returned[i]
              /\ \A n \in 1..Len(data) : \E i \in 1..Len(op'.returned) : op'.returned[i] = data[n].category]_vars

\* C16 witness: get_all_categories on records of categories quote, quote and
\* principle has returned principle, then quote.
C16_Witness ==
    /\ op.name = "get_all_categories"
    /\ Len(data) = 3 /\ data[1].category = "quote" /\ data[2].category = "quote" /\ data[3].category = "principle"
    /\ op.returned = <<"principle", "quote">>

\* C15: a store is empty (no record) or populated.  add_wisdom and
\* add_wisdom_batch of a non-empty list, when they return, leave it
\* populated; delete of a present id leaves it empty exactly when it held
\* one record; clear leaves it empty; every other call leaves it in the
\* state it was in.  On a store a delete has just emptied, search returns
\* the empty list and add_wisdom leaves one record and one row.
C15_EmptyOrPopulated ==
    [][LET n == op'.name
           adds == \/ n = "add_wisdom" /\ ~op'.raised
                   \/ n = "add_wisdom_batch" /\ ~op'.raised /\ op'.wisdom # <<>>
           deletes == n = "delete" /\ Present(data, op'.wisdom_id[1])
           emptied == op.name = "delete" /\ op.index # 0 /\ data = <<>>
       IN /\ adds => Len(data') >= 1
          /\ deletes => (Len(data') = 0 <=> Len(data) = 1)
          /\ n = "clear" => Len(data') = 0
          /\ ~(adds \/ deletes \/ n = "clear") => (Len(data') = 0 <=> Len(data) = 0)
          /\ (emptied /\ n = "search") => (op'.results = <<>> /\ ~op'.raised)
          /\ (emptied /\ n = "add_wisdom" /\ ~op'.raised) => (Len(data') = 1 /\ Len(Rows(embeddings')) = 1)]_vars

\* C15 witness: a search for the content of the deleted record on a store
\* emptied by delete, whose matrix has no rows and whose files remain.
C15_Witness ==
    /\ op.name = "search" /\ op.query = Some("alpha") /\ ~op.provider_fails /\ op.n_results > 0
    /\ data = <<>> /\ embeddings = Some(<<>>) /\ data_file = Some(<<>>) /\ embeddings_file = Some(<<>>)
    /\ op.results = <<>>

\* TRUE when the last operation called the embedding provider: add_wisdom,
\* add_wisdom_batch of a non-empty list, and the searches of a store that has
\* records.
Embedded ==
    \/ op.name = "add_wisdom"
    \/ op.name = "add_wisdom_batch" /\ op.wisdom # <<>>
    \/ op.name \in {"search", "search_by_mental_model"} /\ data # <<>>

\* C17: when the provider raises during add_wisdom, add_wisdom_batch or a
\* search of a store that has records, the operation raises the provider's
\* error and returns nothing; it calls the provider once, failing or not.
C17_ProviderErrorPropagates ==
    /\ Embedded => op.embed_calls = 1
    /\ (Embedded /\ op.provider_fails) =>
         /\ op.raised
         /\ op.error = Some("EncodeError")
         /\ op.results = <<>>
         /\ op.returned = None

\* C17 witness: a search of a store of two records has raised the
\* provider's error after one call.
C17_Witness ==
    /\ op.name = "search" /\ op.provider_fails /\ Len(data) = 2
    /\ op.raised /\ op.error = Some("EncodeError") /\ op.embed_calls = 1

\* C18: the constructor raises on a directory whose records file or
\* embeddings file is present and unparsable, so the caller gets no
\* instance: no operation acts on what was loaded before the error, and the
\* store does not start empty.
C18_UnparsableFileFailsOpen ==
    [][/\ (op'.name = "open" /\ (data_file = Unparsable \/ embeddings_file = Unparsable)) => (op'.raised /\ op'.error # None)
       /\ ~(op.name = "open" /\ op.raised)]_vars

\* C18 witness: the constructor has raised on an unparsable embeddings file
\* after loading two records.
C18_Witness == op.name = "open" /\ op.raised /\ embeddings_file = Unparsable /\ Len(data) = 2 /\ embeddings = None

\* C19 as stated: a store constructed on a directory with exactly one of the
\* two files has no record and no row, and after the constructor and every
\* add_wisdom and delete that follows the list has as many records as the
\* matrix has rows.
C19_OneFileMissingOpensEmpty ==
    [][/\ (op'.name = "open" /\ ~op'.raised /\ (data_file = None) # (embeddings_file = None)) => (data' = <<>> /\ Len(Rows(embeddings')) = 0)
       /\ ~(op'.name = "open" /\ op'.raised) => Len(data') = Len(Rows(embeddings'))]_vars

\* TRUE when both instances have returned from _save.
BothSaved == \A i \in Instances : instances[i].pc = "saved"

\* The instance that made the last write of the file named f.
LastWriter(f) == written[CHOOSE n \in 1..Len(written) : written[n].file = f /\ \A m \in (n + 1)..Len(written) : written[m].file # f].instance

\* TRUE when the file named f holds what instance i has in memory.
Holds(f, i) ==
    IF f = "data_file" THEN load_data(data_file) = instances[i].data
    ELSE Rows(load_embeddings(embeddings_file)) = Rows(instances[i].embeddings)

\* C20 as stated: when both instances have saved, both files hold the state
\* of the instance whose _save finished last, and the records file has as
\* many records as the embeddings file has rows.
C20_FilesFromLastSaver ==
    BothSaved =>
        /\ Holds("data_file", written[Len(written)].instance)
        /\ Holds("embeddings_file", written[Len(written)].instance)
        /\ Len(load_data(data_file)) = Len(Rows(load_embeddings(embeddings_file)))

\* C20 amended: when both instances have saved, each file holds what the
\* instance that wrote that file last has in memory; the two files agree
\* when the same instance wrote both last.
C20_EachFileFromItsLastWriter ==
    BothSaved =>
        /\ Holds("data_file", LastWriter("data_file"))
        /\ Holds("embeddings_file", LastWriter("embeddings_file"))
        /\ LastWriter("data_file") = LastWriter("embeddings_file") => Len(load_data(data_file)) = Len(Rows(load_embeddings(embeddings_file)))

\* C20 witness: both instances have saved, the records file written last by
\* one and the embeddings file by the other, with more records than rows.
C20_Witness ==
    /\ BothSaved
    /\ LastWriter("data_file") # LastWriter("embeddings_file")
    /\ Len(load_data(data_file)) > Len(Rows(load_embeddings(embeddings_file)))

\* C21: the process constructs at most one embedding model, whatever the
\* number of instances and operations; it does so in the first operation
\* that embeds (add_wisdom, add_wisdom_batch of a non-empty list, a search
\* of a store that has records), never in the constructor, get_count,
\* delete, clear or a search of an empty store; every later operation
\* leaves that model in place.
C21_ModelLoadedOnce ==
    [][/\ model' \in {None, Some(1)}
       /\ model # None => model' = model
       /\ model' # model => op'.name \in {"add_wisdom", "add_wisdom_batch", "search", "search_by_mental_model"} /\ op'.embed_calls = 1
       /\ (op'.embed_calls > 0 /\ ~op'.raised) => model' = Some(1)
       /\ op'.name \in {"open", "get_count", "delete", "clear"} => model' = model
       /\ (op'.name = "search" /\ data = <<>>) => model' = model]_vars

\* C21 witness: the model constructed once has served a second instance:
\* a search of three records after an instance was opened with the model
\* loaded.
C21_Witness == model = Some(1) /\ op.name = "search" /\ op.embed_calls = 1 /\ ~op.raised /\ Len(data) = 3

\* TRUE when every component of the vector v is 0.
IsZero(v) == \A k \in 1..Len(v) : v[k] = 0

\* C22: a search whose query embedding is the zero vector, or that meets a
\* row that is, raises nothing, gives that row the similarity 0 and reports
\* its record with the distance 1.
C22_ZeroVectorDistanceOne ==
    (op.name = "search" /\ data # <<>>) =>
        /\ ~op.raised
        /\ \A i \in 1..Len(data) :
             (IsZero(Encode(op.query[1])) \/ IsZero(embeddings[1][i])) =>
                 /\ Sim(i) = 0
                 /\ \A n \in 1..Len(op.picked) : op.picked[n] = i => op.results[n].distance = Scale

\* C22 witness: a query that is not the zero vector has met a zero row and
\* a row that is not; both records are returned, the first at distance 1,
\* the other not.
C22_Witness ==
    /\ op.name = "search" /\ ~op.raised /\ Len(data) = 2 /\ Len(op.results) = 2
    /\ ~IsZero(Encode(op.query[1]))
    /\ IsZero(embeddings[1][op.picked[1]]) /\ op.results[1].distance = Scale
    /\ ~IsZero(embeddings[1][op.picked[2]]) /\ op.results[2].distance # Scale

\* C23: add_wisdom and add_wisdom_batch embed, then append, then save.
\* add_wisdom_batch(rs) that returns leaves the records followed by those of
\* rs in order, the rows followed by the embeddings of the contents of rs
\* in order, has called the provider once, and both files hold the new
\* list and the new matrix; add_wisdom does the same for its one record;
\* add_wisdom_batch([]) calls nothing and leaves memory and files as they
\* were.
C23_BatchAppendsInOrder ==
    [][LET rs == op'.wisdom
       IN /\ (op'.name \in {"add_wisdom", "add_wisdom_batch"} /\ rs # <<>> /\ ~op'.raised) =>
               /\ data' = data \o [i \in 1..Len(rs) |-> Item(rs[i])]
               /\ Rows(embeddings') = Rows(embeddings) \o [i \in 1..Len(rs) |-> Encode(rs[i].content)]
               /\ op'.embed_calls = 1
               /\ data_file' # None /\ load_data(data_file') = data'
               /\ embeddings_file' # None /\ load_embeddings(embeddings_file') = embeddings'
          /\ (op'.name = "add_wisdom_batch" /\ rs = <<>>) =>
               /\ ~op'.raised
               /\ op'.embed_calls = 0
               /\ UNCHANGED <<data, embeddings, data_file, embeddings_file>>]_vars

\* C23 witness: a batch of two records of different contents has been added
\* to a store holding one record of another content than the first of the
\* batch.
C23_Witness ==
    /\ op.name = "add_wisdom_batch" /\ ~op.raised /\ Len(op.wisdom) = 2 /\ Len(data) = 3
    /\ op.wisdom[1].content # op.wisdom[2].content
    /\ data[1].content # data[2].content
    /\ Rows(embeddings)[3] = Encode(op.wisdom[2].content)

\* The number of records of d that carry the id of uuid.
RECURSIVE Carrying(_, _)
Carrying(d, uuid) == IF d = <<>> THEN 0 ELSE (IF Head(d).id = str(uuid) THEN 1 ELSE 0) + Carrying(Tail(d), uuid)

\* C25: add_wisdom or add_wisdom_batch in which the provider raises leaves
\* the list, the matrix and both files as they were, every row still the
\* embedding of the record at its position; the same add_wisdom called
\* again, the provider answering, adds the record once.
C25_FailedAddChangesNothing ==
    [][/\ (op'.name \in {"add_wisdom", "add_wisdom_batch"} /\ op'.raised) =>
            /\ UNCHANGED <<data, embeddings, data_file, embeddings_file>>
            /\ Len(data') = Len(Rows(embeddings'))
            /\ \A n \in 1..Len(data') : Rows(embeddings')[n] = Encode(data'[n].content)
       /\ (op.name = "add_wisdom" /\ op.raised /\ op'.name = "add_wisdom" /\ ~op'.raised /\ op'.wisdom = op.wisdom) =>
            /\ Len(data') = Len(data) + 1
            /\ Carrying(data', op.wisdom[1].id) = Carrying(data, op.wisdom[1].id) + 1
            /\ Len(Rows(embeddings')) = Len(data')]_vars

\* C25 witness: the provider has raised in add_wisdom on a store of two
\* records, which the files still hold.
C25_Witness ==
    /\ op.name = "add_wisdom" /\ op.raised /\ op.error = EncodeError
    /\ Len(data) = 2 /\ Len(Rows(embeddings)) = 2 /\ load_data(data_file) = data
    /\ ~Present(data, op.wisdom[1].id)

\* C24: _process_text gives every object it makes the category whose value
\* is the string passed, or quote when the string is not one of the six
\* values; it makes one object for each chunk of stripped length 50 or more,
\* in order, and none for the others; it calls add_wisdom_batch once with
\* all of them, or not at all when there is none; and it returns the number
\* of records the store has gained.
C24_IngestNormalisesCategory ==
    [][op'.name = "_process_text" =>
         LET chunks == op'.wisdom
             kept == SelectSeq(chunks, LAMBDA c : strip_len(c) >= 50)
             value == IF op'.query[1] \in {"mental_model", "quote", "principle", "story", "speech_excerpt", "book_excerpt"} THEN op'.query[1] ELSE "quote"
         IN /\ Len(op'.batches) = IF kept = <<>> THEN 0 ELSE 1
            /\ \A b \in 1..Len(op'.batches) :
                 /\ Len(op'.batches[b]) = Len(kept)
                 /\ \A i \in 1..Len(kept) :
                      /\ op'.batches[b][i].content = kept[i]
                      /\ op'.batches[b][i].category \in DOMAIN WisdomCategory
                      /\ WisdomCategory[op'.batches[b][i].category] = value
            /\ ~op'.raised =>
                 /\ op'.returned = Len(kept)
                 /\ Len(data') = Len(data) + op'.returned
                 /\ \A i \in 1..Len(kept) : data'[Len(data) + i].category = value /\ data'[Len(data) + i].content = kept[i]
            /\ \A i \in 1..Len(data') : data'[i].category \in {"mental_model", "quote", "principle", "story", "speech_excerpt", "book_excerpt"}]_vars

\* C24 witness: a text of a short chunk and a long one was ingested under a
\* string that is no category value, into a store holding a principle: one
\* record of category quote was added and 1 returned.
C24_Witness ==
    /\ op.name = "_process_text" /\ ~op.raised /\ op.query = Some("Quote")
    /\ Len(op.wisdom) = 2 /\ strip_len(op.wisdom[1]) < 50
    /\ op.returned = 1 /\ Len(op.batches) = 1
    /\ Len(data) = 2 /\ data[1].category = "principle" /\ data[2].category = "quote"

\* C26: seed_munger_wisdom on a store without records adds the built-in
\* records and returns their number; on a store that holds a record,
\* seeded or not, it returns 0 and leaves the records, the matrix and the
\* files as they were; so the second of two calls in a row adds nothing.
C26_SeedOnlyWhenEmpty ==
    [][op'.name = "seed_munger_wisdom" =>
         /\ (data = <<>> /\ ~op'.raised) =>
              /\ op'.returned = Len(built_in(data)) /\ op'.returned > 0
              /\ Len(data') = op'.returned
              /\ Len(Rows(embeddings')) = Len(Rows(embeddings)) + op'.returned
              /\ \A i \in 1..Len(data') : data'[i].content = built_in(data)[i].content
              /\ load_data(data_file') = data'
         /\ data # <<>> =>
              /\ ~op'.raised
              /\ op'.returned = 0
              /\ op'.batches = <<>>
              /\ UNCHANGED <<data, embeddings, data_file, embeddings_file>>
         /\ (op.name = "seed_munger_wisdom" /\ ~op.raised) => (op'.returned = 0 /\ data' = data)]_vars

\* C26 witness: the second of two calls in a row has returned 0, the store
\* holding the built-in records once.
C26_Witness ==
    /\ op.name = "seed_munger_wisdom" /\ ~op.raised /\ op.returned = 0
    /\ Len(data) = Len(built_in(<<>>))
    /\ \A i \in 1..Len(data) : data[i].content = built_in(<<>>)[i].content

\* The chunks a step of _chunk_text may have appended, as the positions
\* <<a, b>> of text[a:b]: the text itself where it is returned as the one
\* chunk, the slice of an iteration that appended one, stripped.
Produced ==
    IF frame.pc = "idle" /\ frame'.pc = "returned" THEN {<<0, frame'.len>>}
    ELSE IF frame.pc = "slice" /\ frame'.chunks = frame.chunks + 1
    THEN {c \in strip(frame.len, frame.start, Min(frame.end, frame.len), frame.idx > frame.start) : c[1] < c[2]}
    ELSE {}

\* A step of _chunk_text: an iteration moves start forward, and a chunk
\* appended is of at most chunk_size + lookahead characters and not empty,
\* unless it is the text of a call that empty_text allows.
ChunkStep(empty_text) ==
    /\ frame.pc = "slice" => frame'.start > frame.start
    /\ \A c \in Produced :
         /\ c[2] - c[1] <= chunk_size + lookahead
         /\ c[2] - c[1] > 0 \/ (empty_text /\ frame'.len = 0 /\ frame'.chunks = 1)

\* What _chunk_text has returned: chunks that contain every character of
\* the text, and one chunk for a text of at most chunk_size.
ChunksReturned ==
    frame.pc = "returned" =>
        /\ frame.covered = frame.len
        /\ frame.len <= chunk_size => frame.chunks = 1

\* C27 as stated: _chunk_text returns for every text; each iteration of its
\* loop moves start forward; every chunk is non-empty and of at most
\* chunk_size + 50 characters; every character of the normalised text is in
\* a chunk; a text of at most chunk_size characters gives one chunk.
C27_EveryChunkNonEmpty ==
    /\ [][ChunkStep(FALSE)]_vars
    /\ [](ChunksReturned)
    /\ <>(frame.pc = "returned")

\* C27, amended: as stated, but the one chunk of a text that is empty once
\* normalised is the empty string; every other chunk is non-empty.
C27_ChunkTextReturnsCover ==
    /\ [][ChunkStep(TRUE)]_vars
    /\ [](ChunksReturned)
    /\ <>(frame.pc = "returned")

\* A text of more than two chunks has been chunked by the loop.
C27_Witness == frame.pc = "returned" /\ frame.chunks > 2 /\ frame.covered = frame.len /\ frame.len > chunk_size

\* TRUE when the prompt holds the section of retrieved wisdom.
HasWisdomSection(messages) == \E i \in 1..Len(messages) : \E j \in 1..Len(messages[i].parts) : messages[i].parts[j] = "## Relevant Wisdom from Your Past"

\* C28: ask does not fail because of the wisdom store.  When the
\* constructor of the store or search raises, _retrieve_wisdom answers the
\* empty list; ask then assembles a prompt without the section of retrieved
\* wisdom and calls the LLM once; an error ask raises is not the store's.
C28_StoreErrorsAreCaught ==
    LET a == advisor.ask
    IN /\ a.store_raised => a.relevant_wisdom = <<>> /\ a.pc \in {"generate", "returned", "raised"}
       /\ a.pc = "raised" => a.error \notin {Some("JSONDecodeError"), Some("ValueError"), EncodeError}
       /\ a.pc = "generate" => a.llm_calls = 0
       /\ a.store_raised /\ a.pc \in {"returned", "raised"} => a.llm_calls = 1 /\ ~HasWisdomSection(a.messages)

\* ask has returned a response after the store raised.
C28_Witness == advisor.ask.pc = "returned" /\ advisor.ask.store_raised /\ op.raised /\ advisor.ask.response # None

\* C29: ask stores the exchange if and only if it is given a user_id and
\* does not stream.  Then the database gains one conversation, of that user,
\* ended, whose messages are the question of the user and the response of
\* the assistant; otherwise the database is as the call found it.
C29_AskStoresIffUserAndNoStream ==
    LET a == advisor.ask
        was == a.db0.conversations
        now == db.conversations
    IN a.pc = "returned" /\ advisor.chat.pc \in {"idle", "asking"} =>
         IF a.user_id # None /\ ~a.stream
         THEN /\ db.profiles = a.db0.profiles
              /\ Len(now) = Len(was) + 1
              /\ \A i \in 1..Len(was) : now[i] = was[i] /\ now[i].id # now[Len(now)].id
              /\ now[Len(now)].user_id = a.user_id[1]
              /\ now[Len(now)].ended
              /\ now[Len(now)].messages = <<Message("user", a.question), Message("assistant", a.response[1])>>
         ELSE db = a.db0

\* ask has stored an exchange beside the conversation the database held.
C29_Witness == advisor.ask.pc = "returned" /\ advisor.chat.pc = "idle" /\ advisor.ask.user_id = Some("u1") /\ Len(db.conversations) = 2

\* The messages of the conversation of that id, none if there is no such
\* conversation.
MessagesOf(d, conversation_id) == IF get_conversation(d, conversation_id) = None THEN <<>> ELSE get_conversation(d, conversation_id)[1].messages

\* What C30 says of chat apart from the number of conversations it creates:
\* one commit on return, one rollback when it raises, the session closed in
\* both cases; ValueError and nothing persisted for an unknown
\* conversation_id; nothing persisted when it raises; on return the
\* conversation has gained the user message, and the response after it
\* unless that is streamed.
ChatInOneSession ==
    LET c == advisor.chat
    IN /\ c.pc = "returned" => c.commits = 1 /\ c.rollbacks = 0 /\ c.closes = 1
       /\ c.pc = "raised" => c.commits = 0 /\ c.rollbacks = 1 /\ c.closes = 1 /\ db = c.db0
       /\ c.pc # "idle" /\ c.conversation_id # None /\ get_conversation(c.db0, c.conversation_id[1]) = None => c.pc = "raised" /\ c.error = Some("ValueError")
       /\ c.pc = "returned" =>
            MessagesOf(db, c.returned[1]) = MessagesOf(c.db0, c.returned[1]) \o <<Message("user", c.message)>> \o (IF c.stream THEN <<>> ELSE <<Message("assistant", "response")>>)

====
